---------------------------- MODULE Spec2Model ----------------------------
(***************************************************************************)
(* Model of the one-time-password library gibme-npm/mfa: the HOTP engine   *)
(* (generate / verify / mergeConfig), the TOTP adapter (time-to-counter    *)
(* derivation), the YubiKey client (canonical parameter string, signed     *)
(* request, parsing and checking of the response) and the Secret class     *)
(* (constructor, toString, Base32).                                        *)
(*                                                                         *)
(* The repository holds two revisions of the HOTP and TOTP engines.  The   *)
(* variable rev selects the revision a behaviour runs:                     *)
(*   "legacy"  : src/src/hotp.ts (lines 1-250) and src/src/totp.ts         *)
(*   "current" : src/unnamed/part_003 (lines 1-277) and                    *)
(*               src/unnamed/part_002                                      *)
(* A property of "HOTP.verify" or "TOTP.generate" is checked on both.      *)
(*                                                                         *)
(* Strings are sequences of one-character strings, byte buffers are        *)
(* sequences of 0..255, a partial configuration object is a function whose *)
(* DOMAIN is the set of properties the object has.                         *)
(***************************************************************************)
EXTENDS Integers, Sequences, FiniteSets, TLC

VARIABLES rev, cfg, now, gen, call, ver, yubi

vars == <<rev, cfg, now, gen, call, ver, yubi>>

(***************************************************************************)
(* Bounds of the model.                                                    *)
(***************************************************************************)
MaxCounter == 2
MaxWindow == 1

(***************************************************************************)
(* HMAC.  createHmac is a library function; its values on the inputs of    *)
(* the model are tabulated: HmacTable[<<algorithm, k, payload>>] is the    *)
(* HMAC digest of payload under the key Secrets[k].  Secrets[1] is the     *)
(* RFC 6238 seed "12345678901234567890"; Secrets[2] and Secrets[3] are the *)
(* ASCII seeds "00000000000000083443" and "00000000000000159501".          *)
(***************************************************************************)
Secrets ==
  << <<49,50,51,52,53,54,55,56,57,48,49,50,51,52,53,54,55,56,57,48>>,
     <<48,48,48,48,48,48,48,48,48,48,48,48,48,48,48,56,51,52,52,51>>,
     <<48,48,48,48,48,48,48,48,48,48,48,48,48,48,49,53,57,53,48,49>> >>

HmacTable ==
  (  <<"sha1", 1, <<0,0,0,0,0,0,0,0>>>> :>
      <<204,147,207,24,80,141,148,147,76,100,182,93,139,167,102,127,183,205,228,176>>)
  @@ (<<"sha1", 1, <<0,0,0,0,0,0,0,1>>>> :>
      <<117,164,138,25,212,203,225,0,100,78,138,193,57,126,234,116,122,45,51,171>>)
  @@ (<<"sha1", 1, <<1,0,0,0,0,0,0,0>>>> :>
      <<101,15,30,59,84,47,94,204,177,186,77,224,22,85,209,48,235,1,195,222>>)
  @@ (<<"sha1", 1, <<0,0,0,0,0,0,0,2>>>> :>
      <<11,172,183,250,8,47,239,48,120,34,17,147,139,193,197,231,4,22,255,68>>)
  @@ (<<"sha1", 1, <<2,0,0,0,0,0,0,0>>>> :>
      <<25,208,72,141,237,63,105,112,148,6,188,37,248,52,195,227,25,159,101,42>>)
  @@ (<<"sha1", 1, <<0,0,0,0,0,0,0,3>>>> :>
      <<102,194,130,39,208,58,45,85,41,38,47,240,22,161,230,239,118,85,126,206>>)
  @@ (<<"sha1", 1, <<3,0,0,0,0,0,0,0>>>> :>
      <<68,213,52,129,251,141,108,229,134,27,41,85,112,61,218,255,2,41,125,99>>)
  @@ (<<"sha1", 1, <<0,0,0,0,0,0,0,4>>>> :>
      <<169,4,201,0,166,75,53,144,152,116,179,62,97,197,147,138,142,21,237,28>>)
  @@ (<<"sha1", 1, <<4,0,0,0,0,0,0,0>>>> :>
      <<25,52,100,160,89,96,255,33,97,47,251,106,222,156,80,125,49,12,104,61>>)
  @@ (<<"sha1", 1, <<0,0,0,0,0,0,0,5>>>> :>
      <<163,126,120,61,123,114,51,192,131,212,246,41,38,199,162,95,35,141,3,22>>)
  @@ (<<"sha1", 1, <<5,0,0,0,0,0,0,0>>>> :>
      <<215,79,192,125,152,53,138,241,209,253,122,35,75,150,167,88,231,205,12,69>>)
  @@ (<<"sha1", 1, <<0,0,0,0,0,0,0,6>>>> :>
      <<188,156,210,133,97,4,44,131,242,25,50,77,60,96,114,86,192,50,114,174>>)
  @@ (<<"sha1", 1, <<6,0,0,0,0,0,0,0>>>> :>
      <<219,218,158,62,115,177,35,97,118,104,83,222,132,233,157,68,239,114,255,6>>)
  @@ (<<"sha1", 1, <<0,0,0,0,0,0,0,7>>>> :>
      <<164,251,150,12,11,192,110,30,171,184,4,229,179,151,205,196,180,85,150,250>>)
  @@ (<<"sha1", 1, <<7,0,0,0,0,0,0,0>>>> :>
      <<228,181,111,89,179,198,154,57,208,167,188,85,198,95,211,56,36,185,157,211>>)
  @@ (<<"sha1", 1, <<0,0,0,0,0,0,0,8>>>> :>
      <<27,60,137,246,94,108,158,136,48,18,5,40,35,68,63,4,139,67,50,219>>)
  @@ (<<"sha1", 1, <<8,0,0,0,0,0,0,0>>>> :>
      <<59,175,88,36,167,89,207,186,16,144,245,187,180,52,192,23,37,171,65,242>>)
  @@ (<<"sha1", 1, <<0,0,0,0,0,0,0,9>>>> :>
      <<22,55,64,152,9,166,121,220,105,130,7,49,12,140,127,192,114,144,217,229>>)
  @@ (<<"sha1", 1, <<9,0,0,0,0,0,0,0>>>> :>
      <<50,112,228,67,206,209,187,204,43,33,67,62,8,161,55,138,122,26,136,66>>)
  @@ (<<"sha1", 2, <<0,0,0,0,0,0,0,0>>>> :>
      <<250,64,8,205,40,79,55,217,7,16,29,45,242,83,247,29,109,206,227,51>>)
  @@ (<<"sha1", 2, <<0,0,0,0,0,0,0,1>>>> :>
      <<42,153,252,51,211,124,120,145,111,0,183,117,234,199,239,39,130,3,87,39>>)
  @@ (<<"sha1", 2, <<1,0,0,0,0,0,0,0>>>> :>
      <<56,90,208,187,193,30,99,164,195,53,178,8,226,107,44,233,223,166,109,160>>)
  @@ (<<"sha1", 2, <<0,0,0,0,0,0,0,2>>>> :>
      <<120,11,250,74,0,114,144,247,24,23,34,138,94,46,75,63,51,244,0,95>>)
  @@ (<<"sha1", 2, <<2,0,0,0,0,0,0,0>>>> :>
      <<224,21,9,215,32,108,163,184,216,164,177,35,137,100,102,76,36,122,52,126>>)
  @@ (<<"sha1", 2, <<0,0,0,0,0,0,0,3>>>> :>
      <<19,225,181,114,108,117,200,172,14,139,3,163,254,255,165,108,8,130,128,202>>)
  @@ (<<"sha1", 2, <<3,0,0,0,0,0,0,0>>>> :>
      <<143,74,128,79,226,10,59,113,153,229,109,229,105,163,37,180,150,23,237,133>>)
  @@ (<<"sha1", 2, <<0,0,0,0,0,0,0,4>>>> :>
      <<88,107,88,169,175,115,54,16,184,158,154,32,173,104,8,229,224,75,101,166>>)
  @@ (<<"sha1", 2, <<4,0,0,0,0,0,0,0>>>> :>
      <<198,252,129,142,131,155,194,15,150,200,37,162,195,229,20,31,211,27,99,83>>)
  @@ (<<"sha1", 2, <<0,0,0,0,0,0,0,5>>>> :>
      <<239,237,12,102,113,140,124,72,207,241,124,182,45,151,57,226,14,146,243,95>>)
  @@ (<<"sha1", 2, <<5,0,0,0,0,0,0,0>>>> :>
      <<186,95,54,181,207,120,109,124,215,141,179,14,102,157,208,32,1,66,210,39>>)
  @@ (<<"sha1", 2, <<0,0,0,0,0,0,0,6>>>> :>
      <<51,104,98,82,88,113,30,164,129,58,84,38,10,20,122,74,203,108,54,148>>)
  @@ (<<"sha1", 2, <<6,0,0,0,0,0,0,0>>>> :>
      <<147,114,141,223,86,118,220,255,96,221,159,192,68,123,246,4,215,208,76,84>>)
  @@ (<<"sha1", 2, <<0,0,0,0,0,0,0,7>>>> :>
      <<212,11,7,142,181,95,1,122,60,23,181,210,100,175,116,202,47,159,51,75>>)
  @@ (<<"sha1", 2, <<7,0,0,0,0,0,0,0>>>> :>
      <<237,156,199,148,66,41,70,119,44,41,130,24,23,85,53,143,86,201,96,173>>)
  @@ (<<"sha1", 2, <<0,0,0,0,0,0,0,8>>>> :>
      <<83,249,223,144,81,105,123,138,124,118,123,219,5,122,184,90,240,242,98,144>>)
  @@ (<<"sha1", 2, <<8,0,0,0,0,0,0,0>>>> :>
      <<215,114,87,171,136,230,174,174,84,99,12,129,28,225,28,2,165,172,57,231>>)
  @@ (<<"sha1", 2, <<0,0,0,0,0,0,0,9>>>> :>
      <<92,76,255,72,231,8,33,103,129,142,198,49,242,124,115,47,237,185,21,78>>)
  @@ (<<"sha1", 2, <<9,0,0,0,0,0,0,0>>>> :>
      <<212,127,199,97,19,145,98,248,98,255,237,17,199,37,45,167,62,158,237,143>>)
  @@ (<<"sha1", 3, <<0,0,0,0,0,0,0,0>>>> :>
      <<0,167,136,90,155,200,57,234,93,97,91,186,108,30,101,10,80,105,108,122>>)
  @@ (<<"sha1", 3, <<0,0,0,0,0,0,0,1>>>> :>
      <<147,142,232,37,48,184,177,217,35,65,32,56,46,226,173,212,245,153,225,14>>)
  @@ (<<"sha1", 3, <<1,0,0,0,0,0,0,0>>>> :>
      <<224,76,11,132,76,107,13,191,234,231,32,87,192,233,84,86,134,136,149,163>>)
  @@ (<<"sha1", 3, <<0,0,0,0,0,0,0,2>>>> :>
      <<37,238,92,3,120,143,117,28,202,176,133,53,68,138,173,133,132,165,7,107>>)
  @@ (<<"sha1", 3, <<2,0,0,0,0,0,0,0>>>> :>
      <<112,143,47,77,25,24,129,37,205,174,17,160,46,90,5,88,140,53,84,197>>)
  @@ (<<"sha1", 3, <<0,0,0,0,0,0,0,3>>>> :>
      <<43,212,249,228,226,89,132,74,136,231,131,107,158,61,224,168,242,165,79,52>>)
  @@ (<<"sha1", 3, <<3,0,0,0,0,0,0,0>>>> :>
      <<16,163,139,184,122,181,222,20,240,68,74,113,94,39,154,67,70,78,70,47>>)
  @@ (<<"sha1", 3, <<0,0,0,0,0,0,0,4>>>> :>
      <<199,173,231,38,12,41,136,85,160,117,69,226,229,21,219,249,78,165,99,219>>)
  @@ (<<"sha1", 3, <<4,0,0,0,0,0,0,0>>>> :>
      <<41,160,245,29,31,205,1,0,50,46,171,205,31,126,133,115,133,92,239,52>>)
  @@ (<<"sha1", 3, <<0,0,0,0,0,0,0,5>>>> :>
      <<144,32,145,84,90,235,22,195,205,138,209,236,81,244,217,151,30,107,83,41>>)
  @@ (<<"sha1", 3, <<5,0,0,0,0,0,0,0>>>> :>
      <<146,194,209,35,46,125,212,253,42,48,173,14,40,103,18,92,36,47,86,63>>)
  @@ (<<"sha1", 3, <<0,0,0,0,0,0,0,6>>>> :>
      <<135,3,215,32,42,217,180,80,168,2,31,168,104,147,209,21,145,148,243,55>>)
  @@ (<<"sha1", 3, <<6,0,0,0,0,0,0,0>>>> :>
      <<254,156,163,116,182,25,201,252,116,169,122,23,233,37,131,231,203,179,133,198>>)
  @@ (<<"sha1", 3, <<0,0,0,0,0,0,0,7>>>> :>
      <<122,114,94,91,159,214,232,171,254,77,187,0,39,133,69,190,30,158,213,141>>)
  @@ (<<"sha1", 3, <<7,0,0,0,0,0,0,0>>>> :>
      <<196,10,154,175,13,0,19,162,95,177,40,103,90,183,144,92,148,33,18,121>>)
  @@ (<<"sha1", 3, <<0,0,0,0,0,0,0,8>>>> :>
      <<166,68,84,146,152,201,93,161,238,214,71,82,140,134,54,32,163,230,249,12>>)
  @@ (<<"sha1", 3, <<8,0,0,0,0,0,0,0>>>> :>
      <<221,156,189,100,154,172,144,34,231,152,78,86,71,176,152,11,162,254,113,32>>)
  @@ (<<"sha1", 3, <<0,0,0,0,0,0,0,9>>>> :>
      <<172,218,150,103,78,92,167,167,176,252,68,125,57,6,160,163,65,101,81,119>>)
  @@ (<<"sha1", 3, <<9,0,0,0,0,0,0,0>>>> :>
      <<169,173,110,9,192,100,126,204,100,119,174,127,94,215,160,114,71,101,44,174>>)
  @@ (<<"sha224", 1, <<0,0,0,0,0,0,0,0>>>> :>
      <<76,65,4,121,51,103,109,66,237,20,112,34,183,36,220,27,229,106,207,107,197,37,85,105,69,145,146,137>>)
  @@ (<<"sha224", 1, <<0,0,0,0,0,0,0,1>>>> :>
      <<55,76,153,113,20,156,175,74,196,105,114,2,250,78,113,169,68,157,137,186,123,125,53,168,103,234,214,68>>)
  @@ (<<"sha224", 1, <<1,0,0,0,0,0,0,0>>>> :>
      <<255,139,145,216,140,85,148,189,40,64,61,233,204,181,161,182,48,247,207,93,8,162,229,121,165,181,91,3>>)
  @@ (<<"sha224", 1, <<0,0,0,0,0,0,0,2>>>> :>
      <<125,23,218,173,145,184,194,207,214,24,27,56,145,163,236,254,132,46,35,174,216,122,93,96,250,90,230,229>>)
  @@ (<<"sha224", 1, <<2,0,0,0,0,0,0,0>>>> :>
      <<246,53,133,190,249,164,195,152,143,234,118,189,201,83,117,93,9,135,172,43,51,201,3,46,236,67,208,196>>)
  @@ (<<"sha224", 1, <<0,0,0,0,0,0,0,3>>>> :>
      <<177,178,97,175,11,128,110,114,148,6,77,26,153,151,75,94,215,17,202,40,19,195,38,158,194,58,144,199>>)
  @@ (<<"sha224", 1, <<3,0,0,0,0,0,0,0>>>> :>
      <<224,144,23,99,175,239,157,250,74,78,91,3,140,205,239,203,22,90,56,114,8,116,60,157,246,229,84,186>>)
  @@ (<<"sha224", 1, <<0,0,0,0,0,0,0,4>>>> :>
      <<93,124,122,133,87,187,33,255,24,90,195,253,139,133,199,62,80,149,90,129,13,196,101,230,69,52,234,253>>)
  @@ (<<"sha224", 1, <<4,0,0,0,0,0,0,0>>>> :>
      <<173,70,41,91,235,236,17,161,112,9,144,2,49,90,190,75,97,156,73,246,213,146,1,100,63,104,208,157>>)
  @@ (<<"sha224", 1, <<0,0,0,0,0,0,0,5>>>> :>
      <<246,40,176,3,183,199,93,90,245,64,229,13,12,28,104,90,36,91,239,194,141,94,23,13,91,211,39,34>>)
  @@ (<<"sha224", 1, <<5,0,0,0,0,0,0,0>>>> :>
      <<228,215,181,8,180,118,197,126,55,237,134,168,242,209,115,109,120,95,42,61,38,4,89,86,149,52,72,123>>)
  @@ (<<"sha224", 1, <<0,0,0,0,0,0,0,6>>>> :>
      <<120,93,42,183,175,146,165,98,193,4,105,65,157,38,123,236,226,172,222,247,85,197,65,104,44,126,213,159>>)
  @@ (<<"sha224", 1, <<6,0,0,0,0,0,0,0>>>> :>
      <<11,236,15,0,204,120,123,248,35,135,186,117,114,201,220,130,187,97,245,194,144,107,161,179,168,221,185,77>>)
  @@ (<<"sha224", 1, <<0,0,0,0,0,0,0,7>>>> :>
      <<166,106,106,185,168,108,198,190,238,244,75,144,49,241,137,230,61,78,16,192,220,240,240,58,12,90,178,235>>)
  @@ (<<"sha224", 1, <<7,0,0,0,0,0,0,0>>>> :>
      <<157,93,151,146,170,52,70,244,103,32,163,32,74,208,30,157,121,199,187,149,158,119,131,3,131,72,61,105>>)
  @@ (<<"sha224", 1, <<0,0,0,0,0,0,0,8>>>> :>
      <<27,152,44,35,209,16,235,0,22,64,149,39,252,134,39,173,136,74,1,86,176,123,10,86,81,47,47,208>>)
  @@ (<<"sha224", 1, <<8,0,0,0,0,0,0,0>>>> :>
      <<121,32,121,15,169,44,45,188,92,214,237,237,234,63,239,90,250,231,83,73,118,235,165,240,47,191,103,127>>)
  @@ (<<"sha224", 1, <<0,0,0,0,0,0,0,9>>>> :>
      <<253,66,61,110,87,2,89,169,193,59,71,23,167,27,250,215,14,103,120,57,86,57,159,70,147,69,61,114>>)
  @@ (<<"sha224", 1, <<9,0,0,0,0,0,0,0>>>> :>
      <<207,22,213,110,87,30,105,31,51,167,140,120,40,83,74,204,184,115,152,6,56,206,29,153,136,253,213,34>>)
  @@ (<<"sha224", 2, <<0,0,0,0,0,0,0,0>>>> :>
      <<17,40,133,58,201,236,212,171,241,145,210,179,209,144,107,80,212,74,99,191,249,22,165,85,24,134,108,116>>)
  @@ (<<"sha224", 2, <<0,0,0,0,0,0,0,1>>>> :>
      <<0,12,149,136,98,110,108,220,103,109,162,124,15,158,177,95,245,90,165,40,7,182,14,0,73,201,237,76>>)
  @@ (<<"sha224", 2, <<1,0,0,0,0,0,0,0>>>> :>
      <<18,20,168,148,207,130,141,84,192,50,1,79,57,201,111,18,204,143,24,29,69,227,29,142,206,111,117,169>>)
  @@ (<<"sha224", 2, <<0,0,0,0,0,0,0,2>>>> :>
      <<106,70,252,106,42,76,177,117,116,109,160,55,26,223,199,201,219,187,110,97,114,6,190,65,247,117,186,91>>)
  @@ (<<"sha224", 2, <<2,0,0,0,0,0,0,0>>>> :>
      <<54,65,211,133,5,129,157,234,116,165,105,116,97,2,20,94,107,107,32,78,100,237,185,90,220,252,249,71>>)
  @@ (<<"sha224", 2, <<0,0,0,0,0,0,0,3>>>> :>
      <<141,100,195,97,167,112,97,118,224,93,173,191,87,16,217,119,83,26,111,112,202,31,55,112,84,64,215,58>>)
  @@ (<<"sha224", 2, <<3,0,0,0,0,0,0,0>>>> :>
      <<75,96,67,28,123,42,217,213,58,171,4,131,129,152,9,219,14,59,169,103,100,1,13,204,163,8,206,218>>)
  @@ (<<"sha224", 2, <<0,0,0,0,0,0,0,4>>>> :>
      <<223,217,71,84,254,41,1,46,189,188,79,24,8,28,216,227,133,192,108,121,221,247,102,238,71,152,80,17>>)
  @@ (<<"sha224", 2, <<4,0,0,0,0,0,0,0>>>> :>
      <<121,154,161,189,161,230,145,93,145,205,77,223,130,62,67,179,86,145,109,166,104,127,119,32,60,175,97,31>>)
  @@ (<<"sha224", 2, <<0,0,0,0,0,0,0,5>>>> :>
      <<0,36,71,131,87,223,40,4,149,142,140,190,181,66,102,222,147,245,5,104,242,225,196,228,159,174,28,199>>)
  @@ (<<"sha224", 2, <<5,0,0,0,0,0,0,0>>>> :>
      <<68,173,158,162,51,14,232,215,104,110,1,208,232,184,39,203,205,218,45,253,145,221,147,252,19,223,60,186>>)
  @@ (<<"sha224", 2, <<0,0,0,0,0,0,0,6>>>> :>
      <<14,83,94,79,129,236,220,174,33,198,61,66,11,59,159,44,72,11,26,168,178,77,100,79,167,29,172,126>>)
  @@ (<<"sha224", 2, <<6,0,0,0,0,0,0,0>>>> :>
      <<144,118,78,176,184,41,226,19,66,237,161,62,73,173,200,27,144,203,110,186,17,74,130,207,102,96,204,38>>)
  @@ (<<"sha224", 2, <<0,0,0,0,0,0,0,7>>>> :>
      <<123,66,83,96,55,45,219,89,85,162,196,135,208,91,186,123,108,13,134,204,175,0,40,75,158,214,158,121>>)
  @@ (<<"sha224", 2, <<7,0,0,0,0,0,0,0>>>> :>
      <<158,93,133,163,201,224,155,175,141,129,252,13,243,10,120,36,120,119,117,179,173,105,23,120,131,228,181,254>>)
  @@ (<<"sha224", 2, <<0,0,0,0,0,0,0,8>>>> :>
      <<14,209,197,75,170,182,187,51,76,28,74,103,114,197,110,2,18,46,183,116,68,116,241,60,8,150,130,188>>)
  @@ (<<"sha224", 2, <<8,0,0,0,0,0,0,0>>>> :>
      <<29,213,189,93,183,1,10,189,186,17,245,208,120,208,241,216,193,69,250,183,128,116,34,194,168,44,93,244>>)
  @@ (<<"sha224", 2, <<0,0,0,0,0,0,0,9>>>> :>
      <<50,220,42,98,188,158,138,65,205,79,174,228,53,113,101,198,139,97,223,239,31,185,214,220,170,226,158,250>>)
  @@ (<<"sha224", 2, <<9,0,0,0,0,0,0,0>>>> :>
      <<28,181,150,146,97,236,160,240,134,114,204,222,153,134,227,45,105,134,157,130,248,80,111,80,232,54,130,195>>)
  @@ (<<"sha224", 3, <<0,0,0,0,0,0,0,0>>>> :>
      <<236,23,43,6,104,176,200,51,191,193,74,41,205,133,239,159,22,49,241,247,138,56,228,204,149,248,112,6>>)
  @@ (<<"sha224", 3, <<0,0,0,0,0,0,0,1>>>> :>
      <<7,16,176,161,4,189,31,134,253,197,246,214,183,235,228,174,222,2,43,10,235,162,135,102,125,111,70,245>>)
  @@ (<<"sha224", 3, <<1,0,0,0,0,0,0,0>>>> :>
      <<126,242,102,149,27,164,113,98,188,151,205,236,116,198,164,43,185,225,210,112,122,158,47,172,50,128,229,240>>)
  @@ (<<"sha224", 3, <<0,0,0,0,0,0,0,2>>>> :>
      <<195,100,45,228,36,66,88,54,181,155,132,196,133,241,172,195,6,88,234,129,130,19,87,23,44,45,21,162>>)
  @@ (<<"sha224", 3, <<2,0,0,0,0,0,0,0>>>> :>
      <<222,175,122,209,205,99,10,38,164,224,211,50,113,121,188,144,47,161,81,154,235,193,143,138,114,153,254,11>>)
  @@ (<<"sha224", 3, <<0,0,0,0,0,0,0,3>>>> :>
      <<34,43,237,177,18,1,231,209,137,151,31,45,120,150,103,21,18,14,92,237,38,56,23,92,3,123,67,26>>)
  @@ (<<"sha224", 3, <<3,0,0,0,0,0,0,0>>>> :>
      <<55,35,111,157,73,22,134,140,11,126,233,203,112,45,147,243,24,177,26,179,173,155,99,60,111,84,224,167>>)
  @@ (<<"sha224", 3, <<0,0,0,0,0,0,0,4>>>> :>
      <<104,226,82,214,144,103,206,144,174,80,166,42,4,108,102,169,223,39,47,158,195,80,226,152,194,176,175,248>>)
  @@ (<<"sha224", 3, <<4,0,0,0,0,0,0,0>>>> :>
      <<134,32,8,137,128,9,141,215,116,129,124,3,129,71,224,32,232,43,139,90,230,98,167,174,105,43,38,25>>)
  @@ (<<"sha224", 3, <<0,0,0,0,0,0,0,5>>>> :>
      <<84,112,100,59,191,126,147,141,53,113,87,187,55,183,89,219,231,207,247,220,20,60,167,119,11,138,69,237>>)
  @@ (<<"sha224", 3, <<5,0,0,0,0,0,0,0>>>> :>
      <<128,171,103,77,98,218,119,16,174,176,202,130,7,71,202,63,87,136,237,60,228,149,22,236,123,121,182,77>>)
  @@ (<<"sha224", 3, <<0,0,0,0,0,0,0,6>>>> :>
      <<228,3,108,238,112,108,146,116,224,46,97,90,76,45,164,140,71,180,104,41,231,232,112,102,165,85,213,237>>)
  @@ (<<"sha224", 3, <<6,0,0,0,0,0,0,0>>>> :>
      <<204,67,161,150,48,211,151,7,186,58,182,18,183,32,39,218,163,11,1,119,148,209,118,225,160,222,81,92>>)
  @@ (<<"sha224", 3, <<0,0,0,0,0,0,0,7>>>> :>
      <<210,33,154,92,104,51,93,146,10,14,99,49,93,23,251,53,98,115,106,11,207,208,166,154,75,84,131,22>>)
  @@ (<<"sha224", 3, <<7,0,0,0,0,0,0,0>>>> :>
      <<253,6,113,4,170,236,88,35,104,34,207,217,63,231,37,105,213,159,229,128,121,54,44,51,95,83,109,162>>)
  @@ (<<"sha224", 3, <<0,0,0,0,0,0,0,8>>>> :>
      <<87,207,104,168,90,161,6,8,41,102,29,184,89,137,172,217,80,176,187,184,145,106,235,122,92,80,97,183>>)
  @@ (<<"sha224", 3, <<8,0,0,0,0,0,0,0>>>> :>
      <<110,11,253,182,115,97,191,119,236,92,111,96,50,34,166,199,18,198,75,109,75,116,227,160,186,43,112,173>>)
  @@ (<<"sha224", 3, <<0,0,0,0,0,0,0,9>>>> :>
      <<222,72,180,115,150,110,42,201,164,80,1,65,240,152,155,214,75,243,101,161,138,40,89,19,122,52,151,237>>)
  @@ (<<"sha224", 3, <<9,0,0,0,0,0,0,0>>>> :>
      <<8,186,192,67,197,66,29,178,152,9,93,71,11,204,137,104,3,154,46,28,189,217,109,31,124,12,243,104>>)
  @@ (<<"sha256", 1, <<0,0,0,0,0,0,0,0>>>> :>
      <<74,185,141,251,179,51,163,59,21,123,172,23,92,117,52,7,107,129,132,203,220,89,67,121,156,148,23,61,148,103,188,249>>)
  @@ (<<"sha256", 1, <<0,0,0,0,0,0,0,1>>>> :>
      <<236,157,79,104,123,78,254,106,204,82,16,6,114,102,11,132,192,231,33,11,160,56,33,65,248,236,185,7,150,202,185,18>>)
  @@ (<<"sha256", 1, <<1,0,0,0,0,0,0,0>>>> :>
      <<137,97,210,33,109,23,117,216,28,185,87,16,97,240,216,239,32,219,244,1,251,81,136,35,197,223,47,202,101,64,46,195>>)
  @@ (<<"sha256", 1, <<0,0,0,0,0,0,0,2>>>> :>
      <<236,200,19,25,195,86,104,204,78,233,70,232,193,230,27,121,196,214,102,176,216,250,169,113,59,37,90,92,83,169,26,153>>)
  @@ (<<"sha256", 1, <<2,0,0,0,0,0,0,0>>>> :>
      <<32,139,215,177,49,49,217,68,18,228,103,44,14,139,194,156,198,137,225,90,10,255,118,165,232,59,58,156,249,129,123,95>>)
  @@ (<<"sha256", 1, <<0,0,0,0,0,0,0,3>>>> :>
      <<5,112,84,39,201,46,208,97,188,222,238,71,27,167,232,178,254,180,125,31,194,214,247,163,232,229,171,112,126,60,96,3>>)
  @@ (<<"sha256", 1, <<3,0,0,0,0,0,0,0>>>> :>
      <<184,13,80,46,81,120,58,237,243,42,250,21,143,130,217,39,43,182,205,117,129,55,156,69,247,159,197,19,37,27,98,113>>)
  @@ (<<"sha256", 1, <<0,0,0,0,0,0,0,4>>>> :>
      <<233,111,192,123,152,191,237,161,82,162,144,9,112,167,224,226,221,108,22,181,245,70,211,173,25,56,58,168,69,82,62,94>>)
  @@ (<<"sha256", 1, <<4,0,0,0,0,0,0,0>>>> :>
      <<41,26,220,195,54,195,156,171,251,69,149,74,121,207,29,239,194,105,161,55,40,134,25,206,224,235,202,15,221,15,77,91>>)
  @@ (<<"sha256", 1, <<0,0,0,0,0,0,0,5>>>> :>
      <<217,143,12,120,122,237,76,58,233,133,162,69,224,133,88,174,205,86,185,210,85,229,191,10,120,86,131,232,213,34,19,29>>)
  @@ (<<"sha256", 1, <<5,0,0,0,0,0,0,0>>>> :>
      <<192,181,197,108,112,17,188,103,146,36,204,245,206,139,218,3,144,231,184,114,130,96,192,192,135,15,65,102,162,154,88,219>>)
  @@ (<<"sha256", 1, <<0,0,0,0,0,0,0,6>>>> :>
      <<249,208,38,40,140,121,0,117,175,64,76,163,28,33,200,83,136,12,57,159,205,16,175,193,182,52,218,236,90,225,167,50>>)
  @@ (<<"sha256", 1, <<6,0,0,0,0,0,0,0>>>> :>
      <<137,139,254,218,224,181,150,191,128,26,239,212,77,1,204,169,33,194,60,116,105,97,183,138,42,79,239,106,54,100,99,206>>)
  @@ (<<"sha256", 1, <<0,0,0,0,0,0,0,7>>>> :>
      <<230,187,203,141,185,152,7,190,157,171,48,131,0,167,25,3,158,184,255,93,145,122,248,179,184,255,183,227,130,19,245,242>>)
  @@ (<<"sha256", 1, <<7,0,0,0,0,0,0,0>>>> :>
      <<94,207,36,169,73,34,44,57,184,57,52,88,111,244,25,141,107,204,179,226,56,241,14,75,22,112,142,66,168,103,164,177>>)
  @@ (<<"sha256", 1, <<0,0,0,0,0,0,0,8>>>> :>
      <<225,254,204,7,160,2,128,29,54,75,85,25,112,73,248,104,68,91,45,241,1,251,219,79,161,171,185,85,202,228,220,236>>)
  @@ (<<"sha256", 1, <<8,0,0,0,0,0,0,0>>>> :>
      <<150,5,46,229,107,132,137,44,142,150,74,149,253,105,246,142,175,214,201,116,203,156,136,12,44,119,147,132,62,122,112,72>>)
  @@ (<<"sha256", 1, <<0,0,0,0,0,0,0,9>>>> :>
      <<245,202,77,83,105,241,154,25,40,2,241,193,45,13,77,136,93,168,86,249,215,131,136,229,112,174,227,28,36,126,198,125>>)
  @@ (<<"sha256", 1, <<9,0,0,0,0,0,0,0>>>> :>
      <<167,35,44,241,72,124,112,17,215,246,27,244,196,10,82,24,147,119,188,90,109,30,44,186,7,130,85,7,108,129,195,40>>)
  @@ (<<"sha256", 2, <<0,0,0,0,0,0,0,0>>>> :>
      <<81,78,246,165,121,237,110,203,133,207,234,234,119,253,9,130,128,115,165,127,215,230,58,11,104,106,89,49,176,68,5,152>>)
  @@ (<<"sha256", 2, <<0,0,0,0,0,0,0,1>>>> :>
      <<192,167,61,101,124,252,42,201,19,25,132,61,68,148,84,238,244,224,80,245,41,176,192,159,8,200,208,76,3,29,159,117>>)
  @@ (<<"sha256", 2, <<1,0,0,0,0,0,0,0>>>> :>
      <<37,192,22,88,56,194,252,227,145,248,94,80,61,121,128,14,197,128,52,15,174,121,232,105,213,251,177,25,120,14,147,73>>)
  @@ (<<"sha256", 2, <<0,0,0,0,0,0,0,2>>>> :>
      <<2,86,113,206,201,21,84,196,122,254,46,226,70,24,153,15,125,117,101,189,233,63,113,192,184,134,20,136,210,144,167,112>>)
  @@ (<<"sha256", 2, <<2,0,0,0,0,0,0,0>>>> :>
      <<80,127,99,56,19,203,112,215,149,132,20,11,54,255,10,61,86,163,186,68,180,44,215,30,110,220,78,97,59,76,215,179>>)
  @@ (<<"sha256", 2, <<0,0,0,0,0,0,0,3>>>> :>
      <<131,196,104,209,74,18,195,206,9,177,11,27,42,80,69,216,48,179,219,89,227,176,163,142,241,114,189,76,12,249,99,148>>)
  @@ (<<"sha256", 2, <<3,0,0,0,0,0,0,0>>>> :>
      <<11,233,246,51,170,121,123,81,217,122,94,225,45,246,93,58,4,123,48,181,187,182,58,20,130,18,91,170,233,157,229,64>>)
  @@ (<<"sha256", 2, <<0,0,0,0,0,0,0,4>>>> :>
      <<10,211,146,70,71,28,25,77,159,75,212,62,163,121,45,17,139,159,2,70,72,124,240,5,34,28,63,229,182,120,162,2>>)
  @@ (<<"sha256", 2, <<4,0,0,0,0,0,0,0>>>> :>
      <<92,20,252,134,11,167,235,8,228,71,114,81,72,78,233,26,4,5,74,116,99,241,74,203,212,222,191,222,188,24,230,160>>)
  @@ (<<"sha256", 2, <<0,0,0,0,0,0,0,5>>>> :>
      <<52,90,26,66,215,253,173,2,38,111,213,191,217,112,8,123,217,47,159,196,210,215,114,198,192,115,232,33,232,96,55,211>>)
  @@ (<<"sha256", 2, <<5,0,0,0,0,0,0,0>>>> :>
      <<184,28,163,32,87,111,107,21,104,224,207,237,15,148,229,5,123,5,8,210,99,59,240,3,197,166,76,64,59,236,7,68>>)
  @@ (<<"sha256", 2, <<0,0,0,0,0,0,0,6>>>> :>
      <<35,11,25,132,223,35,144,67,213,15,35,35,187,18,205,225,212,196,221,50,243,129,193,45,221,158,156,192,49,181,125,52>>)
  @@ (<<"sha256", 2, <<6,0,0,0,0,0,0,0>>>> :>
      <<130,156,243,111,165,241,22,65,50,249,38,120,252,157,32,255,9,13,90,38,35,76,209,118,107,180,201,248,39,87,251,42>>)
  @@ (<<"sha256", 2, <<0,0,0,0,0,0,0,7>>>> :>
      <<13,98,18,197,204,206,46,6,7,48,184,168,54,138,176,58,8,112,222,83,210,111,171,252,167,55,96,157,12,247,17,234>>)
  @@ (<<"sha256", 2, <<7,0,0,0,0,0,0,0>>>> :>
      <<120,163,214,23,33,113,67,139,42,60,226,162,114,77,19,216,24,211,145,75,248,42,80,72,61,228,142,200,139,96,215,157>>)
  @@ (<<"sha256", 2, <<0,0,0,0,0,0,0,8>>>> :>
      <<166,168,209,64,237,139,125,119,48,118,112,164,237,166,246,222,53,244,176,203,245,218,13,1,89,161,175,56,184,125,57,159>>)
  @@ (<<"sha256", 2, <<8,0,0,0,0,0,0,0>>>> :>
      <<153,158,233,132,219,63,160,218,115,98,40,151,143,116,67,248,155,198,197,177,60,26,92,82,4,95,125,83,27,190,103,16>>)
  @@ (<<"sha256", 2, <<0,0,0,0,0,0,0,9>>>> :>
      <<49,70,236,113,91,166,117,17,234,16,253,161,86,244,114,67,156,95,97,58,49,233,25,189,162,136,158,167,210,159,50,96>>)
  @@ (<<"sha256", 2, <<9,0,0,0,0,0,0,0>>>> :>
      <<241,58,92,62,100,202,32,45,90,162,44,62,212,121,212,176,61,233,159,26,250,0,176,200,90,252,85,68,231,165,203,23>>)
  @@ (<<"sha256", 3, <<0,0,0,0,0,0,0,0>>>> :>
      <<111,50,96,136,199,227,11,35,214,229,24,229,127,149,63,28,145,88,54,167,56,4,126,170,163,124,137,205,220,53,12,229>>)
  @@ (<<"sha256", 3, <<0,0,0,0,0,0,0,1>>>> :>
      <<211,114,31,213,229,246,216,48,252,71,59,3,102,18,67,167,190,187,21,16,232,85,152,242,255,148,68,25,40,29,185,182>>)
  @@ (<<"sha256", 3, <<1,0,0,0,0,0,0,0>>>> :>
      <<89,255,30,218,32,121,210,21,115,136,75,120,6,53,201,185,10,156,49,164,23,13,78,98,66,197,167,4,234,16,8,75>>)
  @@ (<<"sha256", 3, <<0,0,0,0,0,0,0,2>>>> :>
      <<75,107,30,110,166,14,147,217,45,57,161,139,76,215,185,7,170,183,109,113,235,192,138,97,12,19,136,177,236,11,49,39>>)
  @@ (<<"sha256", 3, <<2,0,0,0,0,0,0,0>>>> :>
      <<142,51,174,223,27,135,204,207,225,165,23,79,126,148,140,200,137,28,31,99,214,180,184,168,177,147,92,123,239,32,9,130>>)
  @@ (<<"sha256", 3, <<0,0,0,0,0,0,0,3>>>> :>
      <<202,46,101,4,103,101,184,248,160,240,137,58,111,89,252,7,61,134,203,155,197,70,62,85,6,35,143,82,87,239,190,18>>)
  @@ (<<"sha256", 3, <<3,0,0,0,0,0,0,0>>>> :>
      <<147,3,130,12,180,247,44,95,146,241,202,18,187,180,149,63,19,110,128,137,67,75,92,103,178,162,93,12,219,37,174,227>>)
  @@ (<<"sha256", 3, <<0,0,0,0,0,0,0,4>>>> :>
      <<173,153,144,8,160,27,175,11,255,209,208,89,176,9,126,85,157,126,166,54,238,239,125,225,25,238,56,77,161,61,54,143>>)
  @@ (<<"sha256", 3, <<4,0,0,0,0,0,0,0>>>> :>
      <<91,81,17,2,94,17,228,115,136,254,84,70,167,66,157,206,197,67,191,22,6,41,134,28,213,225,99,44,50,182,147,202>>)
  @@ (<<"sha256", 3, <<0,0,0,0,0,0,0,5>>>> :>
      <<163,195,239,247,248,86,70,162,235,43,66,6,120,98,8,37,48,53,134,144,80,160,30,177,218,235,143,192,29,141,118,225>>)
  @@ (<<"sha256", 3, <<5,0,0,0,0,0,0,0>>>> :>
      <<121,132,97,52,44,224,203,48,96,46,202,19,22,67,227,26,146,0,203,42,119,62,55,57,41,176,7,68,181,172,76,146>>)
  @@ (<<"sha256", 3, <<0,0,0,0,0,0,0,6>>>> :>
      <<3,168,7,43,204,110,10,203,154,34,227,179,169,188,197,182,26,67,139,203,129,253,74,198,176,231,223,176,157,200,62,160>>)
  @@ (<<"sha256", 3, <<6,0,0,0,0,0,0,0>>>> :>
      <<118,223,158,73,14,59,195,70,123,93,240,36,232,87,84,216,50,141,54,199,48,127,82,28,103,73,6,84,111,122,22,169>>)
  @@ (<<"sha256", 3, <<0,0,0,0,0,0,0,7>>>> :>
      <<45,190,138,238,144,26,255,246,29,57,112,116,205,255,38,16,175,12,141,248,153,242,192,239,108,192,74,155,168,134,6,153>>)
  @@ (<<"sha256", 3, <<7,0,0,0,0,0,0,0>>>> :>
      <<60,254,144,33,166,232,22,30,30,160,216,106,126,114,72,22,112,75,1,186,162,155,69,175,168,49,56,58,84,64,117,215>>)
  @@ (<<"sha256", 3, <<0,0,0,0,0,0,0,8>>>> :>
      <<253,130,96,96,179,13,124,89,115,112,252,106,250,159,26,74,74,135,49,32,150,192,37,24,9,235,96,41,94,240,13,66>>)
  @@ (<<"sha256", 3, <<8,0,0,0,0,0,0,0>>>> :>
      <<246,195,182,141,197,9,130,69,99,11,27,37,154,93,104,130,21,215,127,199,145,182,97,163,143,206,45,134,114,130,211,174>>)
  @@ (<<"sha256", 3, <<0,0,0,0,0,0,0,9>>>> :>
      <<207,163,98,150,90,88,73,142,124,21,239,235,78,70,35,141,61,95,67,247,197,162,160,179,126,121,75,53,243,80,160,206>>)
  @@ (<<"sha256", 3, <<9,0,0,0,0,0,0,0>>>> :>
      <<143,20,217,57,120,196,30,52,202,145,94,6,6,245,83,245,15,232,236,65,220,146,223,97,12,6,12,84,143,100,11,7>>)
  @@ (<<"sha384", 1, <<0,0,0,0,0,0,0,0>>>> :>
      <<59,79,28,32,142,32,86,75,115,32,238,229,2,109,42,4,134,1,142,87,107,144,21,163,76,10,235,182,72,128,98,237,202,20,12,78,118,9,251,137,186,203,99,34,170,5,67,138>>)
  @@ (<<"sha384", 1, <<0,0,0,0,0,0,0,1>>>> :>
      <<47,200,182,78,171,196,120,166,130,104,163,239,135,49,210,31,143,6,228,243,177,167,198,197,246,24,197,211,6,248,94,9,39,59,176,217,141,216,81,95,188,123,78,215,90,4,137,39>>)
  @@ (<<"sha384", 1, <<1,0,0,0,0,0,0,0>>>> :>
      <<36,170,18,133,110,24,52,235,30,131,241,40,80,38,26,137,199,87,15,82,193,122,87,221,241,205,106,147,177,132,135,28,18,134,206,11,254,20,145,109,42,217,12,26,105,225,11,6>>)
  @@ (<<"sha384", 1, <<0,0,0,0,0,0,0,2>>>> :>
      <<190,99,253,50,194,143,255,223,99,236,70,202,216,242,127,48,202,159,11,9,71,202,247,226,81,114,89,100,23,211,29,6,155,189,2,132,45,55,37,129,8,222,54,57,121,1,125,26>>)
  @@ (<<"sha384", 1, <<2,0,0,0,0,0,0,0>>>> :>
      <<125,232,202,38,58,247,114,113,169,181,135,161,239,246,7,157,224,47,81,194,246,128,94,226,218,34,98,178,16,14,204,212,150,118,136,184,54,163,181,212,111,145,160,163,207,87,96,163>>)
  @@ (<<"sha384", 1, <<0,0,0,0,0,0,0,3>>>> :>
      <<72,0,117,58,160,189,174,48,194,114,140,44,3,65,137,72,234,87,107,38,117,80,22,191,251,92,216,86,170,99,223,233,233,167,159,85,249,224,155,66,169,72,91,141,123,239,26,223>>)
  @@ (<<"sha384", 1, <<3,0,0,0,0,0,0,0>>>> :>
      <<102,99,245,170,29,72,45,43,161,10,118,163,211,88,228,206,171,123,199,4,99,30,133,11,57,10,168,39,80,154,210,78,141,203,203,59,79,163,115,64,14,126,133,45,44,183,186,57>>)
  @@ (<<"sha384", 1, <<0,0,0,0,0,0,0,4>>>> :>
      <<40,58,55,126,144,217,69,186,59,8,77,114,177,234,48,126,169,111,100,11,170,137,49,105,221,182,62,68,30,161,240,39,132,238,219,199,230,108,4,24,164,214,130,252,200,250,171,236>>)
  @@ (<<"sha384", 1, <<4,0,0,0,0,0,0,0>>>> :>
      <<67,124,157,111,81,160,153,172,7,231,228,154,41,134,71,219,190,127,155,246,44,188,102,218,112,53,68,111,252,76,42,73,227,137,144,125,165,249,154,146,169,114,125,46,133,207,114,9>>)
  @@ (<<"sha384", 1, <<0,0,0,0,0,0,0,5>>>> :>
      <<141,8,144,214,180,211,139,67,210,119,49,116,62,57,101,206,126,26,211,56,146,21,0,65,124,125,12,181,188,226,133,164,131,156,209,197,168,120,146,156,2,52,200,55,24,194,189,144>>)
  @@ (<<"sha384", 1, <<5,0,0,0,0,0,0,0>>>> :>
      <<230,9,183,78,245,35,154,45,82,215,231,43,100,172,10,212,118,196,150,177,32,14,215,112,115,217,118,186,126,132,79,153,19,51,37,95,120,239,121,243,143,89,181,193,250,77,14,151>>)
  @@ (<<"sha384", 1, <<0,0,0,0,0,0,0,6>>>> :>
      <<103,159,228,227,232,211,176,16,88,243,220,47,247,70,15,126,114,181,198,110,70,29,195,6,21,96,52,229,211,17,156,104,201,110,75,129,40,60,155,229,129,250,150,75,70,155,94,175>>)
  @@ (<<"sha384", 1, <<6,0,0,0,0,0,0,0>>>> :>
      <<117,126,190,81,21,201,98,73,189,110,175,39,62,48,113,126,60,122,3,235,43,235,54,37,47,234,114,102,210,245,212,255,27,142,178,235,253,207,142,64,189,189,100,20,189,184,83,23>>)
  @@ (<<"sha384", 1, <<0,0,0,0,0,0,0,7>>>> :>
      <<84,45,9,133,4,248,231,139,8,220,189,93,47,171,41,65,169,6,60,136,25,25,67,129,132,45,122,198,219,99,122,35,22,131,182,252,199,53,106,236,2,227,74,44,45,240,72,70>>)
  @@ (<<"sha384", 1, <<7,0,0,0,0,0,0,0>>>> :>
      <<234,38,224,182,9,236,156,107,11,36,58,86,216,112,113,237,54,139,76,25,137,133,194,198,79,23,116,27,96,88,173,157,75,159,3,51,243,116,68,132,108,77,45,118,206,206,226,55>>)
  @@ (<<"sha384", 1, <<0,0,0,0,0,0,0,8>>>> :>
      <<199,114,46,112,1,223,179,137,97,43,99,69,232,40,26,163,70,15,18,224,139,58,250,177,139,24,56,12,106,146,148,162,34,86,85,85,159,96,122,150,226,106,55,222,120,121,71,121>>)
  @@ (<<"sha384", 1, <<8,0,0,0,0,0,0,0>>>> :>
      <<95,26,102,178,140,29,53,163,108,85,68,200,20,42,26,55,129,18,6,48,63,68,198,12,64,68,188,194,194,112,109,236,36,210,71,179,148,170,82,216,84,253,67,2,20,251,95,197>>)
  @@ (<<"sha384", 1, <<0,0,0,0,0,0,0,9>>>> :>
      <<234,19,116,64,104,12,108,67,76,255,239,152,81,57,233,178,8,45,8,124,235,12,208,240,189,16,128,227,204,120,120,252,135,247,118,240,246,192,37,243,207,212,54,187,196,229,108,201>>)
  @@ (<<"sha384", 1, <<9,0,0,0,0,0,0,0>>>> :>
      <<180,136,3,5,59,78,219,128,149,78,71,237,104,16,149,5,37,30,90,201,67,47,68,55,84,237,17,233,175,42,218,184,18,96,229,205,200,21,42,181,202,96,200,9,97,243,229,250>>)
  @@ (<<"sha384", 2, <<0,0,0,0,0,0,0,0>>>> :>
      <<61,13,107,142,183,242,91,184,127,59,183,116,252,85,31,203,71,14,24,117,251,74,88,217,53,15,255,51,210,24,54,187,67,21,216,163,133,243,192,247,89,0,162,41,178,78,158,37>>)
  @@ (<<"sha384", 2, <<0,0,0,0,0,0,0,1>>>> :>
      <<20,99,250,242,60,19,171,35,94,56,107,9,196,128,48,7,43,3,92,124,38,193,192,239,16,144,162,61,68,229,93,124,125,140,216,9,60,253,33,130,106,253,63,21,152,250,76,229>>)
  @@ (<<"sha384", 2, <<1,0,0,0,0,0,0,0>>>> :>
      <<94,6,249,124,75,83,16,186,104,75,193,135,42,112,102,178,215,72,237,227,105,48,11,196,68,49,14,107,194,159,85,8,241,49,166,203,68,160,85,191,252,35,99,77,46,166,213,26>>)
  @@ (<<"sha384", 2, <<0,0,0,0,0,0,0,2>>>> :>
      <<198,147,61,53,89,193,24,13,56,129,205,102,146,135,101,63,31,28,34,48,155,5,148,113,250,82,231,107,129,215,147,77,164,169,231,136,245,136,178,172,102,147,82,116,209,229,251,171>>)
  @@ (<<"sha384", 2, <<2,0,0,0,0,0,0,0>>>> :>
      <<94,200,76,179,106,61,255,159,42,59,187,113,226,42,156,154,253,184,172,70,139,106,238,223,57,218,181,200,237,3,141,137,4,225,27,43,75,170,69,53,35,224,20,144,22,112,62,101>>)
  @@ (<<"sha384", 2, <<0,0,0,0,0,0,0,3>>>> :>
      <<201,157,206,211,21,240,174,76,34,31,26,60,252,141,131,168,187,138,224,87,132,73,201,30,5,78,187,15,53,83,194,95,44,198,42,188,47,105,253,138,98,7,65,76,90,204,185,27>>)
  @@ (<<"sha384", 2, <<3,0,0,0,0,0,0,0>>>> :>
      <<16,230,254,94,28,180,167,142,44,253,42,169,95,234,39,202,9,244,73,174,112,10,213,55,236,82,162,171,183,153,62,228,145,13,242,179,221,164,184,70,148,5,164,127,2,77,37,109>>)
  @@ (<<"sha384", 2, <<0,0,0,0,0,0,0,4>>>> :>
      <<119,65,180,111,74,78,238,145,204,133,33,155,179,119,122,221,175,190,184,106,122,165,47,73,83,164,93,111,222,136,233,93,252,139,0,97,2,0,199,149,189,115,39,207,225,251,223,97>>)
  @@ (<<"sha384", 2, <<4,0,0,0,0,0,0,0>>>> :>
      <<190,121,128,115,178,169,22,65,215,133,97,83,86,158,58,78,72,114,247,43,110,37,171,184,45,149,31,210,212,36,227,69,188,147,247,72,169,179,8,56,71,75,36,47,5,251,145,139>>)
  @@ (<<"sha384", 2, <<0,0,0,0,0,0,0,5>>>> :>
      <<215,205,57,221,231,33,114,73,10,160,230,54,231,5,208,9,205,166,215,97,146,198,58,124,44,122,141,213,122,88,15,176,194,18,117,41,253,18,166,189,45,165,81,171,239,92,201,31>>)
  @@ (<<"sha384", 2, <<5,0,0,0,0,0,0,0>>>> :>
      <<176,244,73,191,157,29,53,204,73,254,15,199,232,237,135,83,192,202,193,1,56,210,197,41,190,59,208,94,5,127,54,194,34,205,229,65,232,22,72,121,123,208,162,187,235,37,105,25>>)
  @@ (<<"sha384", 2, <<0,0,0,0,0,0,0,6>>>> :>
      <<67,215,83,87,145,180,140,247,123,166,163,106,199,40,41,131,45,53,103,172,173,124,84,235,128,229,111,236,239,118,0,169,221,118,168,168,105,34,124,10,156,207,214,106,181,66,187,217>>)
  @@ (<<"sha384", 2, <<6,0,0,0,0,0,0,0>>>> :>
      <<32,15,100,123,12,118,139,130,53,160,217,122,100,7,195,226,252,222,245,214,65,17,130,4,14,147,85,117,90,172,30,55,147,255,63,7,23,135,119,20,54,145,195,131,131,238,163,41>>)
  @@ (<<"sha384", 2, <<0,0,0,0,0,0,0,7>>>> :>
      <<192,252,139,152,211,67,136,46,194,156,211,210,217,221,85,199,187,206,126,128,198,86,206,189,121,53,179,83,95,114,39,238,224,222,214,229,227,68,96,220,190,24,28,196,178,19,4,80>>)
  @@ (<<"sha384", 2, <<7,0,0,0,0,0,0,0>>>> :>
      <<233,14,231,120,242,48,232,233,116,223,198,208,16,145,232,182,99,164,21,5,51,14,100,117,112,0,127,237,134,229,191,224,14,64,76,125,169,222,105,25,89,236,183,11,64,48,144,28>>)
  @@ (<<"sha384", 2, <<0,0,0,0,0,0,0,8>>>> :>
      <<17,85,61,41,200,162,68,160,77,131,19,45,214,174,22,180,191,55,189,148,96,85,173,109,85,184,134,94,238,27,69,66,49,201,203,215,21,65,163,219,211,15,143,221,45,198,20,119>>)
  @@ (<<"sha384", 2, <<8,0,0,0,0,0,0,0>>>> :>
      <<190,100,135,239,220,102,174,245,174,112,133,22,164,122,193,113,244,230,80,82,218,118,158,150,175,166,177,55,118,5,82,130,144,117,26,169,91,190,7,22,114,13,75,51,201,70,104,178>>)
  @@ (<<"sha384", 2, <<0,0,0,0,0,0,0,9>>>> :>
      <<62,241,243,42,245,161,102,195,136,108,74,169,161,43,46,204,171,211,241,144,79,222,176,129,19,144,189,92,19,76,161,109,255,229,56,115,160,45,236,137,193,133,217,179,67,73,5,246>>)
  @@ (<<"sha384", 2, <<9,0,0,0,0,0,0,0>>>> :>
      <<74,53,47,131,16,145,124,140,127,130,137,255,164,169,107,172,108,88,57,73,76,100,22,145,171,174,238,147,177,6,159,53,176,180,252,69,162,248,168,123,166,196,137,22,133,4,128,213>>)
  @@ (<<"sha384", 3, <<0,0,0,0,0,0,0,0>>>> :>
      <<207,238,91,60,89,70,245,140,210,136,238,235,169,81,178,194,78,239,91,76,25,185,209,226,147,55,75,73,171,219,76,206,213,215,118,73,187,251,165,165,130,66,42,107,81,171,154,177>>)
  @@ (<<"sha384", 3, <<0,0,0,0,0,0,0,1>>>> :>
      <<11,215,89,159,33,168,61,7,96,237,41,252,124,63,62,116,159,2,234,117,156,45,235,249,195,201,208,140,241,221,26,145,140,16,44,30,101,144,143,101,14,247,209,74,111,30,155,181>>)
  @@ (<<"sha384", 3, <<1,0,0,0,0,0,0,0>>>> :>
      <<109,234,149,130,191,163,18,111,168,185,18,40,70,86,24,141,251,119,252,218,189,52,85,125,12,166,50,151,4,31,196,133,118,154,159,27,37,190,243,41,113,158,144,226,42,54,225,32>>)
  @@ (<<"sha384", 3, <<0,0,0,0,0,0,0,2>>>> :>
      <<145,202,95,64,218,13,166,235,108,22,228,180,199,173,77,99,137,106,184,62,243,119,240,205,38,165,63,129,208,30,5,77,148,219,31,184,104,245,226,89,115,42,72,141,202,14,79,144>>)
  @@ (<<"sha384", 3, <<2,0,0,0,0,0,0,0>>>> :>
      <<195,96,203,83,15,248,202,129,82,41,15,205,203,75,153,119,223,244,178,82,155,188,143,140,242,114,75,242,209,211,205,245,66,174,209,8,16,234,135,214,87,216,123,184,28,166,134,171>>)
  @@ (<<"sha384", 3, <<0,0,0,0,0,0,0,3>>>> :>
      <<163,69,71,172,143,210,239,105,64,51,104,108,251,211,118,61,192,194,150,50,198,192,197,30,148,230,79,52,221,241,34,176,154,133,87,13,191,160,66,247,219,46,153,164,87,174,251,52>>)
  @@ (<<"sha384", 3, <<3,0,0,0,0,0,0,0>>>> :>
      <<234,71,153,186,92,188,238,133,109,157,252,238,80,15,222,192,123,43,195,140,59,35,14,46,180,193,214,39,88,63,13,16,227,119,181,4,246,243,185,97,170,69,95,59,145,111,11,109>>)
  @@ (<<"sha384", 3, <<0,0,0,0,0,0,0,4>>>> :>
      <<241,5,115,232,66,100,26,77,8,132,24,145,233,242,31,0,43,211,127,87,131,83,193,71,177,22,217,216,167,47,254,142,131,52,65,20,37,70,216,180,216,196,140,178,119,97,58,101>>)
  @@ (<<"sha384", 3, <<4,0,0,0,0,0,0,0>>>> :>
      <<97,172,245,178,175,104,108,73,42,144,86,127,47,210,16,22,221,42,148,183,167,208,128,105,32,183,170,33,37,78,33,245,13,102,34,45,31,123,13,139,151,8,238,246,69,18,11,119>>)
  @@ (<<"sha384", 3, <<0,0,0,0,0,0,0,5>>>> :>
      <<30,220,27,84,231,173,19,151,59,42,25,123,243,11,236,44,114,201,88,196,240,216,74,7,10,230,172,104,58,58,248,49,34,163,231,74,25,193,25,120,173,69,159,249,232,188,174,40>>)
  @@ (<<"sha384", 3, <<5,0,0,0,0,0,0,0>>>> :>
      <<189,67,187,71,145,129,140,105,184,16,66,219,150,89,82,226,67,30,41,156,190,187,132,4,165,58,178,6,202,220,153,210,30,58,19,78,212,134,207,227,213,76,176,30,221,107,104,115>>)
  @@ (<<"sha384", 3, <<0,0,0,0,0,0,0,6>>>> :>
      <<76,248,53,91,0,11,253,112,192,57,175,220,155,136,31,91,183,233,174,213,221,4,235,44,225,91,163,48,190,118,49,3,194,147,62,113,58,233,175,206,209,96,195,119,26,37,4,245>>)
  @@ (<<"sha384", 3, <<6,0,0,0,0,0,0,0>>>> :>
      <<178,232,81,99,203,198,56,68,198,85,128,79,26,121,108,250,8,142,55,237,128,116,163,94,211,133,217,22,225,154,224,244,157,158,121,179,82,32,158,188,39,227,250,211,171,161,150,2>>)
  @@ (<<"sha384", 3, <<0,0,0,0,0,0,0,7>>>> :>
      <<184,1,204,108,126,146,221,241,245,89,187,63,230,200,116,108,89,246,56,254,168,243,228,205,44,61,68,117,227,236,138,2,208,222,43,149,145,96,163,188,217,149,7,120,190,195,79,108>>)
  @@ (<<"sha384", 3, <<7,0,0,0,0,0,0,0>>>> :>
      <<140,108,25,58,208,236,161,160,144,255,99,183,16,34,13,57,106,18,252,156,115,45,211,59,102,178,252,172,244,77,103,31,139,50,119,135,82,22,119,153,7,2,68,26,192,243,48,28>>)
  @@ (<<"sha384", 3, <<0,0,0,0,0,0,0,8>>>> :>
      <<94,210,210,213,2,208,108,72,121,245,59,194,122,252,65,253,41,245,249,245,232,30,242,206,3,125,65,137,51,45,97,23,178,86,164,237,145,128,170,106,238,230,31,19,208,63,49,93>>)
  @@ (<<"sha384", 3, <<8,0,0,0,0,0,0,0>>>> :>
      <<86,128,77,11,70,103,189,158,204,96,85,199,210,220,129,2,245,191,32,27,82,127,197,74,225,192,29,100,191,163,138,214,226,130,13,16,165,65,207,240,146,245,60,73,162,242,83,209>>)
  @@ (<<"sha384", 3, <<0,0,0,0,0,0,0,9>>>> :>
      <<117,73,63,21,178,210,217,23,130,99,209,40,40,0,251,226,233,2,77,185,97,6,177,163,223,67,220,171,129,111,233,223,142,123,178,235,181,50,102,203,86,72,166,96,163,166,108,47>>)
  @@ (<<"sha384", 3, <<9,0,0,0,0,0,0,0>>>> :>
      <<239,110,244,217,50,195,90,227,51,241,240,36,109,73,107,233,59,231,252,156,160,95,205,231,198,9,153,125,190,67,168,255,119,189,33,205,182,85,222,253,45,6,39,49,139,6,162,113>>)
  @@ (<<"sha512", 1, <<0,0,0,0,0,0,0,0>>>> :>
      <<197,164,2,55,237,107,184,173,39,248,56,245,8,53,150,53,230,62,4,190,210,41,216,71,209,99,38,145,182,74,142,219,56,229,152,129,126,60,158,96,128,177,112,156,110,148,57,11,186,179,18,11,204,250,155,213,36,8,42,239,152,210,74,193>>)
  @@ (<<"sha512", 1, <<0,0,0,0,0,0,0,1>>>> :>
      <<104,160,217,252,127,107,200,227,6,10,76,167,153,150,3,182,195,93,74,247,178,158,24,197,79,79,145,140,36,64,180,123,109,142,43,43,70,223,37,241,36,48,104,169,38,45,129,200,135,158,7,213,73,145,165,236,120,61,183,56,75,11,145,13>>)
  @@ (<<"sha512", 1, <<1,0,0,0,0,0,0,0>>>> :>
      <<202,200,193,35,101,147,45,145,221,241,144,113,63,119,187,245,117,132,186,138,198,225,26,43,31,55,133,110,220,51,157,122,135,254,64,3,100,192,251,234,204,156,229,121,83,163,110,15,86,178,149,163,175,213,236,18,230,130,113,248,45,207,71,84>>)
  @@ (<<"sha512", 1, <<0,0,0,0,0,0,0,2>>>> :>
      <<220,247,168,9,201,182,159,157,153,206,56,196,147,169,255,94,158,138,140,90,36,98,59,179,131,133,42,199,84,162,197,2,56,49,107,222,152,226,4,88,63,250,30,240,53,217,121,38,20,230,181,59,88,121,140,187,84,249,50,164,125,32,76,66>>)
  @@ (<<"sha512", 1, <<2,0,0,0,0,0,0,0>>>> :>
      <<3,212,116,98,162,116,36,190,181,222,210,98,110,159,162,176,213,241,111,76,242,208,63,241,191,254,152,168,85,95,125,246,231,2,150,190,143,6,141,235,149,177,55,123,11,150,123,36,118,111,84,10,128,166,232,11,136,194,142,93,234,41,96,100>>)
  @@ (<<"sha512", 1, <<0,0,0,0,0,0,0,3>>>> :>
      <<122,124,72,207,37,19,162,51,43,38,52,172,110,49,210,244,154,200,253,48,18,227,106,247,207,211,84,46,193,216,7,194,236,247,124,138,255,41,3,67,60,176,40,1,243,165,191,194,119,8,245,95,89,81,68,37,0,136,3,77,38,158,31,198>>)
  @@ (<<"sha512", 1, <<3,0,0,0,0,0,0,0>>>> :>
      <<17,187,238,126,58,217,202,83,101,206,165,40,193,71,44,77,144,167,68,225,36,195,165,109,129,139,228,70,228,73,167,221,211,0,188,249,213,76,65,29,210,192,170,150,115,118,250,207,168,149,208,77,173,24,160,127,65,233,123,60,51,241,152,60>>)
  @@ (<<"sha512", 1, <<0,0,0,0,0,0,0,4>>>> :>
      <<158,241,49,16,73,108,225,46,222,74,115,102,204,157,129,244,77,232,201,144,219,126,29,71,182,247,71,101,182,157,198,60,205,93,134,113,152,24,179,238,231,142,104,99,242,113,81,41,134,29,91,244,5,138,92,145,225,220,89,114,61,147,108,152>>)
  @@ (<<"sha512", 1, <<4,0,0,0,0,0,0,0>>>> :>
      <<175,59,132,124,151,143,137,38,201,201,242,198,141,160,182,29,237,155,164,195,127,42,52,233,224,91,127,160,102,48,82,163,29,195,146,105,94,250,250,237,109,60,235,19,225,65,211,17,194,14,113,75,167,150,78,159,31,112,176,79,105,206,211,11>>)
  @@ (<<"sha512", 1, <<0,0,0,0,0,0,0,5>>>> :>
      <<108,119,179,13,186,29,115,218,105,68,201,196,95,27,66,65,166,86,135,19,10,133,208,166,48,101,149,2,92,113,180,193,221,247,205,37,249,33,149,182,82,1,240,169,104,124,143,122,219,78,30,183,27,143,193,238,158,161,39,181,157,198,157,183>>)
  @@ (<<"sha512", 1, <<5,0,0,0,0,0,0,0>>>> :>
      <<128,80,188,220,14,54,18,95,105,44,130,221,180,45,253,170,48,40,235,95,237,110,123,43,73,37,14,187,153,255,115,129,252,236,51,195,146,99,193,176,179,195,245,212,5,172,221,35,117,169,16,174,152,173,171,171,140,18,97,151,46,130,187,38>>)
  @@ (<<"sha512", 1, <<0,0,0,0,0,0,0,6>>>> :>
      <<229,217,226,36,49,216,106,184,3,99,183,187,81,191,60,99,180,129,200,3,50,225,48,50,108,152,93,132,189,74,160,207,122,16,232,130,115,240,155,60,251,151,125,77,244,166,107,115,26,219,69,255,62,97,226,232,46,223,18,213,55,37,123,244>>)
  @@ (<<"sha512", 1, <<6,0,0,0,0,0,0,0>>>> :>
      <<143,62,16,11,32,33,109,213,206,4,189,97,76,47,142,147,241,145,187,166,210,202,46,114,146,143,160,41,229,11,219,12,103,243,134,165,8,58,251,207,40,28,208,30,147,10,237,95,180,222,221,205,43,116,71,139,137,31,26,70,251,87,216,76>>)
  @@ (<<"sha512", 1, <<0,0,0,0,0,0,0,7>>>> :>
      <<93,42,233,38,7,72,222,75,43,107,80,163,94,205,129,88,171,199,148,66,45,181,123,228,89,129,174,141,182,21,101,242,201,77,76,142,195,208,230,244,179,120,35,210,38,230,251,161,221,64,136,159,157,167,80,111,200,62,240,149,122,182,37,222>>)
  @@ (<<"sha512", 1, <<7,0,0,0,0,0,0,0>>>> :>
      <<234,109,246,48,104,188,123,35,175,194,97,145,165,55,236,137,166,50,97,79,254,55,255,230,157,6,33,117,18,227,111,212,55,199,44,242,162,45,204,111,30,164,171,221,115,88,131,201,66,242,222,174,231,107,65,54,173,88,77,249,35,103,141,34>>)
  @@ (<<"sha512", 1, <<0,0,0,0,0,0,0,8>>>> :>
      <<149,14,155,1,39,227,155,31,38,47,255,0,255,130,25,155,167,48,121,86,50,8,206,234,192,219,206,89,26,14,129,136,53,53,141,4,68,206,83,145,191,163,159,60,122,153,174,98,8,119,230,115,94,37,112,55,29,6,96,227,148,194,94,49>>)
  @@ (<<"sha512", 1, <<8,0,0,0,0,0,0,0>>>> :>
      <<82,188,233,85,77,172,165,67,101,78,217,28,68,236,200,189,207,90,138,31,137,89,109,53,9,118,143,154,31,108,9,82,184,105,81,141,239,196,165,236,180,241,199,114,10,94,113,29,116,41,63,248,225,20,93,60,17,35,112,76,128,43,66,253>>)
  @@ (<<"sha512", 1, <<0,0,0,0,0,0,0,9>>>> :>
      <<66,113,103,32,69,245,87,227,61,222,222,213,189,156,37,145,154,139,196,13,176,112,66,226,162,199,172,185,17,168,223,173,185,96,120,47,34,190,120,115,97,194,60,1,95,244,0,152,71,159,113,1,207,227,148,96,249,32,70,175,121,73,61,60>>)
  @@ (<<"sha512", 1, <<9,0,0,0,0,0,0,0>>>> :>
      <<6,243,205,103,37,241,107,170,78,126,235,126,4,236,45,166,221,26,72,38,32,67,221,52,215,183,16,13,233,38,83,141,216,203,216,183,4,251,188,54,92,24,201,1,121,176,102,32,6,182,117,50,94,172,193,69,214,25,243,188,86,87,75,19>>)
  @@ (<<"sha512", 2, <<0,0,0,0,0,0,0,0>>>> :>
      <<234,217,194,219,158,40,204,160,94,15,208,251,44,54,20,13,244,129,58,50,113,95,233,36,206,240,185,196,183,116,213,181,53,134,123,237,247,250,148,76,153,87,90,61,63,218,50,17,18,171,212,185,60,163,116,54,139,176,212,63,59,11,32,169>>)
  @@ (<<"sha512", 2, <<0,0,0,0,0,0,0,1>>>> :>
      <<99,101,45,138,116,3,171,93,241,85,178,244,39,219,101,242,251,11,79,180,153,20,213,189,103,202,76,38,80,102,34,140,31,183,57,5,166,77,102,12,34,180,150,220,124,94,147,193,189,223,100,154,196,105,142,249,45,208,124,151,220,183,103,23>>)
  @@ (<<"sha512", 2, <<1,0,0,0,0,0,0,0>>>> :>
      <<124,19,47,165,109,243,50,87,169,246,137,231,218,192,238,228,255,218,105,155,200,71,57,211,213,143,12,206,158,132,100,104,78,131,149,172,83,109,34,121,111,85,229,21,239,230,14,50,128,248,105,149,126,104,10,61,188,155,121,170,215,149,59,143>>)
  @@ (<<"sha512", 2, <<0,0,0,0,0,0,0,2>>>> :>
      <<178,169,41,42,92,190,10,72,118,195,13,199,213,171,74,225,97,141,91,211,95,233,228,58,56,179,75,131,170,174,160,135,117,82,208,124,132,191,127,94,235,141,48,145,238,225,17,173,71,114,205,116,108,238,34,34,66,238,79,68,229,122,227,42>>)
  @@ (<<"sha512", 2, <<2,0,0,0,0,0,0,0>>>> :>
      <<199,21,247,240,52,52,37,151,167,238,183,163,206,220,71,232,142,90,242,87,116,130,247,11,248,165,157,172,35,232,44,89,218,212,35,103,8,134,100,241,54,137,227,45,158,24,217,241,3,178,229,181,229,157,84,143,176,80,151,7,104,224,116,75>>)
  @@ (<<"sha512", 2, <<0,0,0,0,0,0,0,3>>>> :>
      <<164,208,119,62,3,115,67,169,108,40,196,147,0,12,147,130,118,186,97,60,127,173,186,225,20,78,211,50,184,52,189,251,113,121,189,57,158,82,208,165,120,130,153,227,57,208,43,2,122,160,121,130,117,186,250,96,70,255,184,168,9,165,247,9>>)
  @@ (<<"sha512", 2, <<3,0,0,0,0,0,0,0>>>> :>
      <<87,58,122,242,157,134,254,151,243,189,250,157,88,242,121,101,153,60,218,167,170,223,30,212,202,124,50,112,59,98,82,137,178,39,82,26,153,167,70,234,235,65,80,72,43,204,124,233,73,14,110,49,89,26,223,56,185,19,4,134,7,96,84,190>>)
  @@ (<<"sha512", 2, <<0,0,0,0,0,0,0,4>>>> :>
      <<53,105,41,204,248,169,38,210,47,164,63,127,43,204,174,144,195,163,189,188,61,87,93,69,126,235,210,219,75,82,239,195,163,2,121,252,85,222,118,41,144,119,183,236,199,64,112,21,46,36,16,99,117,193,47,105,128,249,71,154,42,60,85,19>>)
  @@ (<<"sha512", 2, <<4,0,0,0,0,0,0,0>>>> :>
      <<24,91,210,15,207,60,69,13,66,161,56,10,56,111,154,102,184,127,51,101,239,7,231,176,212,182,144,78,18,203,161,87,185,30,76,144,179,12,213,65,245,9,210,85,185,108,113,95,197,171,233,43,49,34,52,42,143,224,252,43,34,23,189,195>>)
  @@ (<<"sha512", 2, <<0,0,0,0,0,0,0,5>>>> :>
      <<59,196,139,183,116,209,226,198,157,144,85,160,182,141,190,56,12,215,253,171,124,55,200,51,30,27,163,55,10,185,170,236,53,37,185,165,30,94,219,153,49,243,99,108,37,22,137,27,3,219,162,67,212,146,160,128,228,2,240,228,195,231,55,215>>)
  @@ (<<"sha512", 2, <<5,0,0,0,0,0,0,0>>>> :>
      <<112,88,6,44,216,47,176,72,200,87,224,135,174,222,86,113,85,35,94,243,15,75,181,136,177,161,226,162,234,154,225,150,164,28,230,171,131,113,140,98,137,34,20,81,107,105,246,165,188,55,240,186,92,167,141,137,198,135,69,225,239,70,206,173>>)
  @@ (<<"sha512", 2, <<0,0,0,0,0,0,0,6>>>> :>
      <<99,38,40,64,102,82,239,41,58,215,209,189,251,43,147,131,87,20,198,12,49,190,105,222,241,11,249,36,178,171,21,113,153,198,223,125,220,194,104,205,62,156,194,207,77,124,198,162,18,96,130,109,65,17,61,201,210,50,140,42,24,216,129,32>>)
  @@ (<<"sha512", 2, <<6,0,0,0,0,0,0,0>>>> :>
      <<245,159,95,182,31,152,161,189,40,46,215,130,61,237,6,97,64,81,228,201,76,181,129,66,229,70,165,185,64,178,254,211,192,37,9,195,227,73,183,114,3,77,245,97,35,236,89,115,123,218,156,92,136,253,123,228,9,40,238,74,157,6,163,32>>)
  @@ (<<"sha512", 2, <<0,0,0,0,0,0,0,7>>>> :>
      <<12,195,93,6,49,169,30,223,221,27,220,60,62,29,2,74,190,120,142,24,24,249,94,67,148,138,224,202,74,73,185,157,210,51,155,163,122,85,246,129,91,129,242,1,7,218,32,159,18,14,1,41,45,117,83,0,41,161,168,237,52,126,176,37>>)
  @@ (<<"sha512", 2, <<7,0,0,0,0,0,0,0>>>> :>
      <<92,41,1,120,37,158,169,47,219,190,29,32,210,113,28,39,233,56,215,177,182,228,67,242,132,52,20,72,23,205,201,18,50,119,129,148,125,212,242,84,48,93,248,92,137,150,19,232,81,18,86,224,19,133,22,218,140,1,149,135,155,186,158,239>>)
  @@ (<<"sha512", 2, <<0,0,0,0,0,0,0,8>>>> :>
      <<5,119,209,160,30,92,31,51,168,41,234,226,96,168,102,111,130,145,97,55,188,164,51,105,75,207,121,94,144,95,250,117,9,117,28,211,57,255,46,136,81,101,242,197,24,21,118,101,174,19,159,221,56,17,39,54,214,127,115,219,155,57,230,228>>)
  @@ (<<"sha512", 2, <<8,0,0,0,0,0,0,0>>>> :>
      <<167,24,82,8,91,183,231,211,76,247,62,81,108,6,193,124,50,249,85,249,199,122,3,8,32,156,113,136,35,241,144,1,248,82,206,1,60,117,254,189,117,174,151,213,107,215,133,52,72,131,28,208,70,139,9,145,96,60,61,106,72,189,252,221>>)
  @@ (<<"sha512", 2, <<0,0,0,0,0,0,0,9>>>> :>
      <<193,49,71,218,209,232,20,144,66,234,63,67,38,83,238,52,182,70,93,130,186,215,210,121,158,126,173,16,159,31,157,56,151,13,248,47,157,153,54,46,238,111,62,202,221,147,87,100,221,11,31,35,173,236,206,12,245,94,187,230,206,6,4,58>>)
  @@ (<<"sha512", 2, <<9,0,0,0,0,0,0,0>>>> :>
      <<213,14,185,130,94,35,26,55,236,45,246,119,10,76,58,32,66,62,113,75,165,173,94,223,199,3,80,22,87,132,35,17,183,111,107,126,99,183,203,62,183,141,16,199,34,221,51,44,96,12,46,61,188,208,247,46,244,125,29,37,223,199,251,138>>)
  @@ (<<"sha512", 3, <<0,0,0,0,0,0,0,0>>>> :>
      <<37,253,255,252,214,72,157,250,242,5,45,210,189,171,110,101,229,163,28,127,163,150,134,25,41,174,69,117,229,103,155,70,196,140,113,240,207,148,125,195,127,137,238,43,229,133,1,121,177,97,206,211,30,132,98,201,117,241,94,90,239,44,88,101>>)
  @@ (<<"sha512", 3, <<0,0,0,0,0,0,0,1>>>> :>
      <<15,248,19,10,150,43,186,181,123,171,238,207,161,224,44,228,30,243,190,120,123,111,3,120,71,135,196,27,52,29,103,189,103,47,55,0,21,70,136,48,151,221,114,95,126,41,209,31,172,59,225,238,133,181,231,160,30,3,106,35,210,20,185,103>>)
  @@ (<<"sha512", 3, <<1,0,0,0,0,0,0,0>>>> :>
      <<26,168,229,184,138,106,88,165,205,216,9,85,6,182,169,195,27,7,174,233,97,128,167,166,109,245,89,131,152,94,208,125,100,34,188,82,2,78,119,128,68,55,133,194,226,11,186,85,161,241,200,117,75,18,41,209,112,175,105,237,107,75,75,47>>)
  @@ (<<"sha512", 3, <<0,0,0,0,0,0,0,2>>>> :>
      <<177,236,85,122,242,48,138,21,98,127,207,32,119,90,213,173,118,215,169,254,57,206,57,201,123,237,25,158,192,183,13,218,122,181,53,54,138,190,5,168,253,164,238,208,97,88,147,146,59,26,93,202,63,19,86,101,249,49,35,132,134,224,201,226>>)
  @@ (<<"sha512", 3, <<2,0,0,0,0,0,0,0>>>> :>
      <<24,224,27,126,147,126,156,226,34,28,47,27,214,183,231,226,78,247,184,35,209,231,6,89,132,18,157,169,75,227,160,242,76,246,110,161,100,128,36,45,9,210,53,112,178,92,238,14,153,159,170,253,74,31,148,252,4,70,166,140,24,250,247,190>>)
  @@ (<<"sha512", 3, <<0,0,0,0,0,0,0,3>>>> :>
      <<48,64,221,2,232,177,25,92,37,88,109,56,61,181,167,138,7,149,207,31,36,140,235,250,145,43,102,220,151,146,224,194,29,234,123,81,184,170,204,243,52,153,16,20,26,213,10,21,131,208,196,162,29,54,62,251,69,176,252,37,201,204,10,234>>)
  @@ (<<"sha512", 3, <<3,0,0,0,0,0,0,0>>>> :>
      <<24,155,30,93,233,21,248,235,24,224,22,175,144,13,159,123,248,173,234,64,72,68,95,90,94,171,114,126,77,248,152,201,179,165,183,121,115,64,181,62,165,242,219,141,136,64,204,130,80,181,117,205,246,103,164,131,192,184,161,191,147,50,141,188>>)
  @@ (<<"sha512", 3, <<0,0,0,0,0,0,0,4>>>> :>
      <<73,232,81,159,56,118,69,235,72,31,247,58,98,8,249,235,22,170,92,183,189,16,31,40,25,206,157,154,134,168,78,171,30,70,169,4,113,56,17,236,161,54,215,155,192,108,171,3,208,77,19,223,21,169,240,152,14,54,154,201,114,96,200,172>>)
  @@ (<<"sha512", 3, <<4,0,0,0,0,0,0,0>>>> :>
      <<28,58,8,198,188,55,191,12,157,39,215,124,131,71,82,170,105,89,182,157,196,73,51,55,67,184,149,123,81,20,110,189,14,145,211,145,147,128,98,94,255,16,45,67,201,190,74,14,232,15,187,192,101,120,12,43,5,221,69,89,41,253,172,220>>)
  @@ (<<"sha512", 3, <<0,0,0,0,0,0,0,5>>>> :>
      <<108,12,103,209,174,87,179,178,138,132,172,240,133,205,80,165,100,218,86,153,35,66,170,56,176,108,155,200,17,44,191,189,226,5,62,36,204,54,97,64,215,145,144,54,60,225,8,27,148,82,247,15,207,169,236,8,81,94,219,239,86,179,224,143>>)
  @@ (<<"sha512", 3, <<5,0,0,0,0,0,0,0>>>> :>
      <<43,209,48,221,6,61,119,228,99,2,184,225,154,23,241,219,208,36,64,141,15,147,19,2,138,120,83,226,225,146,200,167,136,99,124,110,132,165,139,216,214,63,14,70,124,140,142,159,21,108,197,230,63,15,219,101,103,126,91,129,37,221,142,229>>)
  @@ (<<"sha512", 3, <<0,0,0,0,0,0,0,6>>>> :>
      <<111,230,227,78,75,112,104,178,88,228,10,194,136,93,187,218,35,110,71,166,54,146,13,121,203,170,48,126,205,46,230,152,222,179,107,191,90,111,141,113,19,168,36,158,149,22,163,10,157,151,57,110,83,5,62,74,52,154,18,60,223,198,80,173>>)
  @@ (<<"sha512", 3, <<6,0,0,0,0,0,0,0>>>> :>
      <<213,89,30,72,17,215,175,92,111,210,72,136,67,104,212,24,109,132,242,11,164,69,195,148,121,134,249,248,24,228,89,72,160,222,235,172,153,40,129,237,102,234,104,68,75,178,233,217,183,195,172,175,208,51,245,117,187,67,68,62,14,125,187,112>>)
  @@ (<<"sha512", 3, <<0,0,0,0,0,0,0,7>>>> :>
      <<186,255,170,192,63,48,33,233,214,115,202,221,158,138,149,49,41,184,43,136,17,79,12,142,156,165,210,8,173,178,202,65,129,102,174,64,98,147,249,157,143,189,156,169,214,113,222,214,236,138,75,171,4,6,28,33,0,122,36,28,156,250,93,78>>)
  @@ (<<"sha512", 3, <<7,0,0,0,0,0,0,0>>>> :>
      <<94,190,144,69,16,230,47,165,151,246,101,112,189,241,71,211,189,57,233,17,183,131,8,112,42,38,24,6,167,30,204,255,5,154,19,10,174,57,147,75,206,246,21,119,10,124,210,132,236,99,112,176,167,184,200,114,131,27,190,223,25,122,208,22>>)
  @@ (<<"sha512", 3, <<0,0,0,0,0,0,0,8>>>> :>
      <<142,158,59,104,175,70,238,217,36,224,224,90,89,243,66,10,133,242,190,178,128,225,234,95,15,245,76,203,186,175,55,231,201,212,200,25,178,201,212,124,16,61,48,1,51,49,149,74,58,160,230,167,3,46,205,34,246,190,14,43,105,84,247,115>>)
  @@ (<<"sha512", 3, <<8,0,0,0,0,0,0,0>>>> :>
      <<187,212,53,213,182,176,161,6,7,154,90,55,4,19,243,33,110,21,224,234,178,53,87,25,221,24,106,12,235,57,160,65,58,141,235,155,82,17,118,182,93,139,160,219,23,194,59,178,245,52,61,148,73,191,21,92,1,127,182,75,200,102,111,149>>)
  @@ (<<"sha512", 3, <<0,0,0,0,0,0,0,9>>>> :>
      <<212,165,95,177,115,252,154,50,138,233,77,32,48,133,84,181,83,96,10,69,250,63,200,66,22,66,172,90,103,217,87,24,160,200,142,161,114,247,116,216,22,249,170,185,67,114,165,160,74,17,122,53,98,67,115,41,43,171,160,5,243,167,165,102>>)
  @@ (<<"sha512", 3, <<9,0,0,0,0,0,0,0>>>> :>
      <<178,93,4,178,171,54,164,146,108,253,61,188,243,0,3,251,41,185,248,248,134,140,169,117,131,165,185,192,167,42,210,86,193,191,194,70,109,116,252,118,57,31,21,122,241,137,23,115,173,162,180,112,11,66,239,232,18,121,211,66,97,95,11,39>>)

(***************************************************************************)
(* Values.                                                                 *)
(***************************************************************************)
Revisions == {"legacy", "current"}

\* enum DigestAlgorithm
DigestAlgorithm == {"sha1", "sha224", "sha256", "sha384", "sha512"}

None == <<>>

\* const c = v; F(c) : v is evaluated once and F applied to its value
Bind(v, F(_)) == CHOOSE r \in {F(c) : c \in {v}} : TRUE

\* the property k of the object o is set to v (o.k = v)
SetProp(o, k, v) == (k :> v) @@ o

\* o.k ??= d : assigns when the property is absent
NullishAssign(o, k, d) == o @@ (k :> d)

\* o.k ||= d : assigns when the property is absent or falsy; falsy is the
\* falsy value of the property's type (0 for numbers, "" for strings)
OrAssign(o, k, falsy, d) ==
  Bind(o, LAMBDA c : IF k \in DOMAIN c /\ c[k] # falsy THEN c
                     ELSE SetProp(c, k, d))

\* String.prototype.charCodeAt: the UTF-16 code unit of a character ("U+00E9"
\* names the one character e-acute)
CharCode ==
  ("0" :> 48) @@ ("1" :> 49) @@ ("2" :> 50) @@ ("3" :> 51) @@ ("4" :> 52)
  @@ ("5" :> 53) @@ ("6" :> 54) @@ ("7" :> 55) @@ ("8" :> 56) @@ ("9" :> 57)
  @@ ("a" :> 97) @@ ("b" :> 98) @@ ("c" :> 99) @@ ("d" :> 100) @@ ("e" :> 101)
  @@ ("f" :> 102) @@ ("g" :> 103) @@ ("h" :> 104) @@ ("i" :> 105) @@ ("j" :> 106)
  @@ ("k" :> 107) @@ ("l" :> 108) @@ ("m" :> 109) @@ ("n" :> 110) @@ ("o" :> 111)
  @@ ("p" :> 112) @@ ("q" :> 113) @@ ("r" :> 114) @@ ("s" :> 115) @@ ("t" :> 116)
  @@ ("u" :> 117) @@ ("v" :> 118) @@ ("w" :> 119) @@ ("x" :> 120) @@ ("y" :> 121)
  @@ ("z" :> 122) @@ ("H" :> 72) @@ ("=" :> 61) @@ ("&" :> 38) @@ ("-" :> 45)
  @@ ("+" :> 43) @@ ("U+00E9" :> 233)
  @@ ("A" :> 65) @@ ("B" :> 66) @@ ("C" :> 67) @@ ("D" :> 68)
  @@ ("E" :> 69) @@ ("F" :> 70) @@ ("G" :> 71) @@ ("I" :> 73)
  @@ ("J" :> 74) @@ ("K" :> 75) @@ ("L" :> 76) @@ ("M" :> 77)
  @@ ("N" :> 78) @@ ("O" :> 79) @@ ("P" :> 80) @@ ("Q" :> 81)
  @@ ("R" :> 82) @@ ("S" :> 83) @@ ("T" :> 84) @@ ("U" :> 85)
  @@ ("V" :> 86) @@ ("W" :> 87) @@ ("X" :> 88) @@ ("Y" :> 89)
  @@ ("Z" :> 90) @@ (" " :> 32) @@ ("." :> 46) @@ ("/" :> 47)
  @@ (":" :> 58) @@ ("?" :> 63) @@ ("[" :> 91) @@ ("]" :> 93)
  @@ ("_" :> 95) @@ ("\r" :> 13) @@ ("\n" :> 10)

\* Buffer.from(string): the UTF-8 bytes of a string of code units below 2048
RECURSIVE BufferFrom(_)
BufferFrom(s) ==
  IF s = <<>> THEN <<>>
  ELSE LET c == CharCode[Head(s)]
       IN  (IF c < 128 THEN <<c>>
            ELSE <<192 + (c \div 64), 128 + (c % 64)>>) \o BufferFrom(Tail(s))

DigitChar == <<"0", "1", "2", "3", "4", "5", "6", "7", "8", "9">>

\* Number.prototype.toString() of an integer
RECURSIVE toString(_)
toString(n) ==
  IF n < 0 THEN <<"-">> \o toString(0 - n)
  ELSE IF n < 10 THEN <<DigitChar[n + 1]>>
  ELSE toString(n \div 10) \o <<DigitChar[(n % 10) + 1]>>

\* String.prototype.padStart(len, fill) with a one-character fill
RECURSIVE padStart(_, _, _)
padStart(s, len, fill) ==
  IF Len(s) >= len THEN s ELSE padStart(<<fill>> \o s, len, fill)

\* x & mask, for a mask of the form 2^k - 1 and x >= 0
BitAnd(x, mask) == x % (mask + 1)

\* x << n, for results below 2^31
RECURSIVE ShiftLeft(_, _)
ShiftLeft(x, n) == IF n = 0 THEN x ELSE ShiftLeft(2 * x, n - 1)

\* 10 ** n
RECURSIVE Pow10(_)
Pow10(n) == IF n = 0 THEN 1 ELSE 10 * Pow10(n - 1)

(***************************************************************************)
(* Secret: an object holding the seed bytes.                               *)
(***************************************************************************)
Secret(bytes) == [buffer |-> bytes]

SecretPool == {Secret(Secrets[k]) : k \in DOMAIN Secrets}

(***************************************************************************)
(* Writer.uint64_t(value, be): the counter as 8 bytes, little-endian       *)
(* unless be is set.                                                       *)
(***************************************************************************)
RECURSIVE LittleEndian(_, _)
LittleEndian(value, n) ==
  IF n = 0 THEN <<>> ELSE <<value % 256>> \o LittleEndian(value \div 256, n - 1)

Reverse(s) == [i \in 1..Len(s) |-> s[Len(s) + 1 - i]]

uint64_t(value, be) ==
  IF be THEN Reverse(LittleEndian(value, 8)) ELSE LittleEndian(value, 8)

\* HOTP.digest: createHmac(algorithm, key).update(payload).digest()
digest(algorithm, key, payload) ==
  HmacTable[<<algorithm, CHOOSE k \in DOMAIN Secrets : Secrets[k] = key, payload>>]

\* the truncation without the mask of the top bit: the 32-bit signed
\* value of the |, and the remainder of JavaScript (sign of the dividend)
TruncateNoMask(d, digits) ==
  Bind(d, LAMBDA dg :
    Bind(BitAnd(dg[Len(dg)], 15), LAMBDA offset :
      Bind((IF dg[offset + 1] >= 128
            THEN dg[offset + 1] - 256 ELSE dg[offset + 1]) * 16777216
           + ShiftLeft(BitAnd(dg[offset + 2], 255), 16)
           + ShiftLeft(BitAnd(dg[offset + 3], 255), 8)
           + BitAnd(dg[offset + 4], 255), LAMBDA signed :
        IF signed < 0
        THEN 0 - ((0 - signed) % Pow10(digits))
        ELSE signed % Pow10(digits))))

\* dynamic truncation and rendering of HOTP.generate
Truncate(d, digits) ==
  Bind(d, LAMBDA dg :
    Bind(BitAnd(dg[Len(dg)], 15), LAMBDA offset :
      (ShiftLeft(BitAnd(dg[offset + 1], 127), 24)
       + ShiftLeft(BitAnd(dg[offset + 2], 255), 16)
       + ShiftLeft(BitAnd(dg[offset + 3], 255), 8)
       + BitAnd(dg[offset + 4], 255)) % Pow10(digits)))

(***************************************************************************)
(* HOTP, current revision.                                                 *)
(***************************************************************************)
\* random stands for the bytes randomBytes returns when a Secret is built
\* without a seed
mergeConfig(config, random) ==
  LET c1 == NullishAssign(config, "issuer", "")
      c2 == NullishAssign(c1, "label", "HOTP Authenticator")
      c3 == NullishAssign(c2, "algorithm", "sha1")
      c4 == NullishAssign(c3, "digits", 6)
      c5 == NullishAssign(c4, "counter", 0)
      c6 == NullishAssign(c5, "window", 1)
      c7 == NullishAssign(c6, "secret", Secret(random))
  IN  c7

\* generate without the left padding of the decimal string
generateNoPad(config, random) ==
  Bind(mergeConfig(config, random), LAMBDA _config :
    LET _counter == uint64_t(_config.counter, TRUE)
        d == digest(_config.algorithm, _config.secret.buffer, _counter)
    IN  Bind(Truncate(d, _config.digits), LAMBDA otp :
          [token |-> toString(otp),
           secret |-> _config.secret,
           config |-> _config]))

generate(config, random) ==
  Bind(mergeConfig(config, random), LAMBDA _config :
    LET _counter == uint64_t(_config.counter, TRUE)
        d == digest(_config.algorithm, _config.secret.buffer, _counter)
    IN  Bind(Truncate(d, _config.digits), LAMBDA otp :
          [token |-> padStart(toString(otp), _config.digits, "0"),
           secret |-> _config.secret,
           config |-> _config]))

\* timingSafeEqual(a, b) on two buffers: a RangeError when their byte lengths
\* differ, else whether they hold the same bytes
timingSafeEqual(a, b) ==
  [threw |-> Len(a) # Len(b), equal |-> a = b]

\* the scan loop recording the matching counter itself as delta
RECURSIVE scanAbsolute(_, _, _, _, _, _)
scanAbsolute(otp, config, i, delta, scanned, random) ==
  IF i > config.counter + config.window
  THEN [delta |-> delta, scanned |-> scanned, threw |-> FALSE]
  ELSE IF i < 0
  THEN scanAbsolute(otp, config, i + 1, delta, scanned, random)
  ELSE LET token == generate(SetProp(config, "counter", i), random).token
       IN  Bind(timingSafeEqual(BufferFrom(otp), BufferFrom(token)),
                LAMBDA eq :
           IF eq.threw
           THEN [delta |-> None, scanned |-> Append(scanned, i),
                 threw |-> TRUE]
           ELSE IF eq.equal
           THEN [delta |-> <<i>>,
                 scanned |-> Append(scanned, i), threw |-> FALSE]
           ELSE scanAbsolute(otp, config, i + 1, delta, Append(scanned, i),
                             random))

\* the scan loop stopping one counter early (i < counter + window)
RECURSIVE scanExclusive(_, _, _, _, _, _)
scanExclusive(otp, config, i, delta, scanned, random) ==
  IF i >= config.counter + config.window
  THEN [delta |-> delta, scanned |-> scanned, threw |-> FALSE]
  ELSE IF i < 0
  THEN scanExclusive(otp, config, i + 1, delta, scanned, random)
  ELSE LET token == generate(SetProp(config, "counter", i), random).token
       IN  Bind(timingSafeEqual(BufferFrom(otp), BufferFrom(token)),
                LAMBDA eq :
           IF eq.threw
           THEN [delta |-> None, scanned |-> Append(scanned, i),
                 threw |-> TRUE]
           ELSE IF eq.equal
           THEN [delta |-> <<i - config.counter>>,
                 scanned |-> Append(scanned, i), threw |-> FALSE]
           ELSE scanExclusive(otp, config, i + 1, delta, Append(scanned, i),
                              random))

\* the scan loop running one counter past the window
RECURSIVE scanPastWindow(_, _, _, _, _, _)
scanPastWindow(otp, config, i, delta, scanned, random) ==
  IF i > config.counter + config.window + 1
  THEN [delta |-> delta, scanned |-> scanned, threw |-> FALSE]
  ELSE IF i < 0
  THEN scanPastWindow(otp, config, i + 1, delta, scanned, random)
  ELSE LET token == generate(SetProp(config, "counter", i), random).token
       IN  Bind(timingSafeEqual(BufferFrom(otp), BufferFrom(token)),
                LAMBDA eq :
           IF eq.threw
           THEN [delta |-> None, scanned |-> Append(scanned, i),
                 threw |-> TRUE]
           ELSE IF eq.equal
           THEN [delta |-> <<i - config.counter>>,
                 scanned |-> Append(scanned, i), threw |-> FALSE]
           ELSE scanPastWindow(otp, config, i + 1, delta, Append(scanned, i),
                               random))

\* the scan loop of verify from counter i on; delta is the match recorded
\* so far, scanned the counters a token was generated for
RECURSIVE scan(_, _, _, _, _, _)
scan(otp, config, i, delta, scanned, random) ==
  IF i > config.counter + config.window
  THEN [delta |-> delta, scanned |-> scanned, threw |-> FALSE]
  ELSE IF i < 0
  THEN scan(otp, config, i + 1, delta, scanned, random)
  ELSE LET token == generate(SetProp(config, "counter", i), random).token
       IN  Bind(timingSafeEqual(BufferFrom(otp), BufferFrom(token)),
                LAMBDA eq :
           IF eq.threw
           THEN [delta |-> None, scanned |-> Append(scanned, i),
                 threw |-> TRUE]
           ELSE IF eq.equal
           THEN [delta |-> <<i - config.counter>>,
                 scanned |-> Append(scanned, i), threw |-> FALSE]
           ELSE scan(otp, config, i + 1, delta, Append(scanned, i), random))

\* a candidate is a string [s |-> chars] or a number [n |-> value]
Normalize(otp, digits) ==
  IF "n" \in DOMAIN otp THEN padStart(toString(otp.n), digits, "0") ELSE otp.s

\* verify without the check of the candidate's length
verifyNoLengthCheck(otp, config, random) ==
  Bind(mergeConfig(config, random), LAMBDA _config :
    Bind(Normalize(otp, _config.digits), LAMBDA _otp :
      Bind(scan(_otp, _config, _config.counter - _config.window,
            None, <<>>, random),
           LAMBDA r :
        [matched |-> r.delta # None, delta |-> r.delta,
         threw |-> r.threw, scanned |-> r.scanned,
         config |-> _config])))

\* verify starting the scan one counter before the window
verifyWider(otp, config, random) ==
  Bind(mergeConfig(config, random), LAMBDA _config :
    Bind(Normalize(otp, _config.digits), LAMBDA _otp :
      Bind(IF Len(_otp) # _config.digits
           THEN [delta |-> None, scanned |-> <<>>, threw |-> FALSE]
           ELSE scan(_otp, _config, _config.counter - _config.window - 1,
                 None, <<>>, random),
           LAMBDA r :
        [matched |-> r.delta # None, delta |-> r.delta,
         threw |-> r.threw, scanned |-> r.scanned,
         config |-> _config])))

\* the result of verify: the pair [matched, delta] (delta = None for null),
\* or threw; scanned and config (the caller's object after the call) are
\* what the call did
verify(otp, config, random) ==
  Bind(mergeConfig(config, random), LAMBDA _config :
    Bind(Normalize(otp, _config.digits), LAMBDA _otp :
      Bind(IF Len(_otp) # _config.digits
           THEN [delta |-> None, scanned |-> <<>>, threw |-> FALSE]
           ELSE scan(_otp, _config, _config.counter - _config.window,
                 None, <<>>, random),
           LAMBDA r :
        [matched |-> r.delta # None, delta |-> r.delta,
         threw |-> r.threw, scanned |-> r.scanned,
         config |-> _config])))

(***************************************************************************)
(* HOTP, legacy revision.  random[i] stands for the bytes randomBytes      *)
(* returns in the i-th Secret built without a seed during the call.        *)
(***************************************************************************)
mergeConfigLegacy(config, random) ==
  LET c1 == OrAssign(config, "issuer", "", "")
      c2 == OrAssign(c1, "label", "", "HOTP Authenticator")
      c3 == OrAssign(c2, "algorithm", "", "sha1")
      c4 == OrAssign(c3, "digits", 0, 6)
      c5 == OrAssign(c4, "counter", 0, 0)
      c6 == OrAssign(c5, "window", 0, 1)
  IN  IF "secret" \in DOMAIN c6
      THEN SetProp(c6, "_secret", c6.secret)
      ELSE SetProp(c6, "_secret", Secret(random))

generateLegacy(config, random) ==
  Bind(mergeConfigLegacy(config, random), LAMBDA _config :
    LET _counter == uint64_t(_config.counter, FALSE)
        d == digest(_config.algorithm, _config._secret.buffer, _counter)
    IN  Bind(Truncate(d, _config.digits), LAMBDA otp :
          [token |-> padStart(toString(otp), _config.digits, "0"),
           secret |-> _config._secret,
           config |-> _config]))

RECURSIVE scanLegacy(_, _, _, _, _, _)
scanLegacy(otp, config, i, delta, scanned, random) ==
  IF i > config.counter + config.window
  THEN [delta |-> delta, scanned |-> scanned, threw |-> FALSE]
  ELSE IF i < 0
  THEN scanLegacy(otp, config, i + 1, delta, scanned, random)
  ELSE LET token == generateLegacy(SetProp(config, "counter", i),
                                   random[Len(scanned) + 2]).token
       IN  Bind(timingSafeEqual(BufferFrom(otp), BufferFrom(token)),
                LAMBDA eq :
           IF eq.threw
           THEN [delta |-> None, scanned |-> Append(scanned, i),
                 threw |-> TRUE]
           ELSE scanLegacy(otp, config, i + 1,
                           IF eq.equal THEN <<i - config.counter>> ELSE delta,
                           Append(scanned, i), random))

verifyLegacy(otp, config, random) ==
  Bind(mergeConfigLegacy(config, random[1]), LAMBDA _config :
    Bind(Normalize(otp, _config.digits), LAMBDA _otp :
      Bind(IF Len(_otp) # _config.digits
           THEN [delta |-> None, scanned |-> <<>>, threw |-> FALSE]
           ELSE scanLegacy(_otp, _config, _config.counter - _config.window,
                       None, <<>>, random),
           LAMBDA r :
        [matched |-> r.delta # None, delta |-> r.delta,
         threw |-> r.threw, scanned |-> r.scanned,
         config |-> _config])))

(***************************************************************************)
(* TOTP.  A timestamp is a number of seconds [n |-> s] or a Date           *)
(* [ms |-> t]; date stands for the value of new Date() at the call.        *)
(***************************************************************************)
Date(ms) == [ms |-> ms]

\* Math.floor(timestamp.getTime() / 1000 / period), for a period > 0
CounterAt(timestamp, period) == timestamp.ms \div (1000 * period)

\* _mergeConfig keeping a counter the caller supplied (counter ??= ...)
_mergeConfigKeepsCounter(config, random, date) ==
  LET c1 == NullishAssign(config, "label", "TOTP Authenticator")
      c2 == NullishAssign(c1, "period", 30)
      c3 == NullishAssign(c2, "timestamp", Date(date))
      c4 == IF "n" \in DOMAIN c3.timestamp
            THEN SetProp(c3, "timestamp", Date(c3.timestamp.n * 1000))
            ELSE c3
      c5 == NullishAssign(c4, "counter", CounterAt(c4.timestamp, c4.period))
  IN  mergeConfig(c5, random)

\* TOTP._mergeConfig, current revision
_mergeConfig(config, random, date) ==
  LET c1 == NullishAssign(config, "label", "TOTP Authenticator")
      c2 == NullishAssign(c1, "period", 30)
      c3 == NullishAssign(c2, "timestamp", Date(date))
      c4 == IF "n" \in DOMAIN c3.timestamp
            THEN SetProp(c3, "timestamp", Date(c3.timestamp.n * 1000))
            ELSE c3
      c5 == SetProp(c4, "counter", CounterAt(c4.timestamp, c4.period))
  IN  mergeConfig(c5, random)

\* TOTP.mergeConfig, legacy revision
TOTPmergeConfigLegacy(config, random, date) ==
  LET c1 == NullishAssign(config, "label", "TOTP Authenticator")
      c2 == NullishAssign(c1, "period", 60)
      c3 == NullishAssign(c2, "timestamp", Date(date))
      c4 == IF "n" \in DOMAIN c3.timestamp
            THEN SetProp(c3, "timestamp", Date(c3.timestamp.n * 1000))
            ELSE c3
      c5 == SetProp(c4, "counter", CounterAt(c4.timestamp, c4.period))
  IN  mergeConfigLegacy(c5, random)

TOTPgenerate(config, random, date) ==
  generate(_mergeConfig(config, random, date), random)

TOTPgenerateLegacy(config, random, date) ==
  generateLegacy(TOTPmergeConfigLegacy(config, random[1], date),
                 random[2])

TOTPverify(otp, config, random, date) ==
  verify(otp, _mergeConfig(config, random, date), random)

TOTPverifyLegacy(otp, config, random, date) ==
  verifyLegacy(otp, TOTPmergeConfigLegacy(config, random[1], date),
               Tail(random))

(***************************************************************************)
(* The callers' inputs.                                                    *)
(***************************************************************************)
Opt(S) == {<<>>} \cup {<<v>> : v \in S}

\* the object with the properties of c that are given
Obj(c) == [k \in {f \in DOMAIN c : c[f] # <<>>} |-> c[k][1]]

\* the configurations of the generate / verify scenarios; under Secrets[2]
\* and Secrets[3] two neighbouring counters have the same six-digit token
HOTPConfigs ==
  {Obj(c) : c \in [digits : Opt({8}),
                   counter : Opt(0..MaxCounter),
                   window : Opt(0..MaxWindow),
                   secret : {<<s>> : s \in SecretPool}]}

\* every algorithm and digit count, and what the configuration contract
\* excludes: a digit count of 7, a negative window
AnyConfigs ==
  {Obj(c) : c \in [algorithm : Opt(DigestAlgorithm),
                   digits : Opt({6, 7, 8}),
                   counter : Opt({0, MaxCounter}),
                   window : Opt({-1}),
                   secret : {<<s>> : s \in SecretPool}]}

TOTPConfigs ==
  {Obj(c) : c \in [counter : Opt({MaxCounter}),
                   window : Opt({0}),
                   period : Opt({30}),
                   timestamp : Opt({[n |-> 59]}),
                   secret : {<<Secret(Secrets[k])>> : k \in {1, 2}}]}

\* Number(s) of a string of decimal digits
RECURSIVE Number(_)
Number(s) ==
  IF s = <<>> THEN 0
  ELSE 10 * Number(SubSeq(s, 1, Len(s) - 1))
       + (CHOOSE d \in 0..9 : DigitChar[d + 1] = s[Len(s)])

\* the candidates a caller passes to verify: the token it holds, as a string
\* or as a number, a number of seven digits, a string with a two-byte
\* character
Candidates ==
  (IF gen = None THEN {}
   ELSE {[s |-> gen.token], [n |-> Number(gen.token)]})
  \cup {[n |-> 1234567], [s |-> <<"U+00E9", "1", "2", "3", "4", "5">>]}

MaxDraws == 2 * MaxWindow + 4

\* the bytes randomBytes returns, call after call; they matter only when the
\* configuration has no secret
RandomDraws(c) ==
  IF "secret" \in DOMAIN c THEN {[i \in 1..MaxDraws |-> Secrets[1]]}
  ELSE [1..MaxDraws -> {Secrets[k] : k \in DOMAIN Secrets}]

\* what a generate call used and returned
Generated(r, period) ==
  [token |-> r.token, secret |-> r.secret, counter |-> r.config.counter,
   digits |-> r.config.digits, algorithm |-> r.config.algorithm,
   period |-> period]

(***************************************************************************)
(* The state machine.  cfg is the object the caller holds and passes to    *)
(* the calls, gen the last token generated, call and ver the last call and *)
(* the result of the last verify, now the clock in milliseconds, yubi the  *)
(* parameters and the canonical string of the YubiKey client.  call.arg is *)
(* the object as it was passed, call.at the clock at the call.             *)
(***************************************************************************)
Start ==
  /\ rev \in Revisions
  /\ now = 0
  /\ gen = None
  /\ call = None
  /\ ver = None
  /\ yubi = None

NewConfig(configs) ==
  /\ \E c \in configs : cfg' = c
  /\ call' = None
  /\ ver' = None
  /\ UNCHANGED <<rev, now, gen, yubi>>

HOTPGenerate ==
  \E random \in RandomDraws(cfg) :
    \E r \in {IF rev = "legacy" THEN generateLegacy(cfg, random[1])
              ELSE generate(cfg, random[1])} :
      /\ cfg' = r.config
      /\ gen' = Generated(r, 0)
      /\ call' = [op |-> "HOTP.generate", arg |-> cfg, otp |-> None,
                  threw |-> FALSE, at |-> now]
      /\ ver' = None
      /\ UNCHANGED <<rev, now, yubi>>

HOTPVerify ==
  \E otp \in Candidates, random \in RandomDraws(cfg) :
    \E r \in {IF rev = "legacy" THEN verifyLegacy(otp, cfg, random)
              ELSE verify(otp, cfg, random[1])} :
      /\ cfg' = r.config
      /\ ver' = r
      /\ call' = [op |-> "HOTP.verify", arg |-> cfg, otp |-> otp,
                  threw |-> r.threw, at |-> now]
      /\ UNCHANGED <<rev, now, gen, yubi>>

InitHOTP == Start /\ cfg \in HOTPConfigs

NextHOTP == NewConfig(HOTPConfigs) \/ HOTPGenerate \/ HOTPVerify

SpecHOTP == InitHOTP /\ [][NextHOTP]_vars

InitAny == Start /\ cfg \in AnyConfigs

NextAny == HOTPGenerate \/ HOTPVerify

SpecAny == InitAny /\ [][NextAny]_vars

MaxNow == 60000

\* the counter a TOTP call made now derives from the configuration
TimeCounter(c, random) ==
  IF rev = "legacy" THEN TOTPmergeConfigLegacy(c, random[1], now).counter
  ELSE _mergeConfig(c, random[1], now).counter

\* the wall clock advances by half a minute
Tick ==
  /\ now + 30000 <= MaxNow
  /\ now' = now + 30000
  /\ UNCHANGED <<rev, cfg, gen, call, ver, yubi>>

TOTPGenerate ==
  \E random \in RandomDraws(cfg) :
    /\ TimeCounter(cfg, random) <= MaxCounter
    /\ \E r \in {IF rev = "legacy" THEN TOTPgenerateLegacy(cfg, random, now)
                 ELSE TOTPgenerate(cfg, random[1], now)} :
         /\ cfg' = r.config
         /\ gen' = Generated(r, r.config.period)
         /\ call' = [op |-> "TOTP.generate", arg |-> cfg, otp |-> None,
                     threw |-> FALSE, at |-> now]
         /\ ver' = None
         /\ UNCHANGED <<rev, now, yubi>>

TOTPVerify ==
  \E otp \in Candidates \ {[n |-> 1234567]},
     random \in RandomDraws(cfg) :
    /\ TimeCounter(cfg, random) <= MaxCounter
    /\ \E r \in {IF rev = "legacy"
                 THEN TOTPverifyLegacy(otp, cfg, random, now)
                 ELSE TOTPverify(otp, cfg, random[1], now)} :
         /\ cfg' = r.config
         /\ ver' = r
         /\ call' = [op |-> "TOTP.verify", arg |-> cfg, otp |-> otp,
                     threw |-> r.threw, at |-> now]
         /\ UNCHANGED <<rev, now, gen, yubi>>

InitTOTP == Start /\ cfg \in TOTPConfigs

NextTOTP == NewConfig(TOTPConfigs) \/ Tick \/ TOTPGenerate \/ TOTPVerify

SpecTOTP == InitTOTP /\ [][NextTOTP]_vars

(***************************************************************************)
(* YubiKeyOTP.construct_param_string.  An object is the sequence of its    *)
(* <<key, value>> properties in insertion order; a value is a string       *)
(* [s |-> chars] or a number [n |-> value].                                *)
(***************************************************************************)
Str(s) == [s |-> s]

\* Object.keys(params)
ObjectKeys(params) == [i \in 1..Len(params) |-> params[i][1]]

\* params[key]
Get(params, key) ==
  params[CHOOSE i \in 1..Len(params) : params[i][1] = key][2]

\* a < b in the order of Array.prototype.sort(): by UTF-16 code units
RECURSIVE StringLess(_, _)
StringLess(a, b) ==
  IF b = <<>> THEN FALSE
  ELSE IF a = <<>> THEN TRUE
  ELSE IF CharCode[Head(a)] # CharCode[Head(b)]
  THEN CharCode[Head(a)] < CharCode[Head(b)]
  ELSE StringLess(Tail(a), Tail(b))

\* the sorted sequence s with x inserted
RECURSIVE Insert(_, _)
Insert(x, s) ==
  IF s = <<>> THEN <<x>>
  ELSE IF StringLess(x, Head(s)) THEN <<x>> \o s
  ELSE <<Head(s)>> \o Insert(x, Tail(s))

\* Array.prototype.sort() of an array of strings
RECURSIVE Sort(_)
Sort(s) == IF s = <<>> THEN <<>> ELSE Insert(Head(s), Sort(Tail(s)))

\* Array.prototype.filter(key => key !== 'h')
RECURSIVE FilterNotH(_)
FilterNotH(s) ==
  IF s = <<>> THEN <<>>
  ELSE (IF Head(s) # <<"h">> THEN <<Head(s)>> ELSE <<>>) \o FilterNotH(Tail(s))

\* Array.prototype.join(sep)
RECURSIVE Join(_, _)
Join(s, sep) ==
  IF s = <<>> THEN <<>>
  ELSE IF Len(s) = 1 THEN Head(s)
  ELSE Head(s) \o sep \o Join(Tail(s), sep)

\* `${value}`
Template(v) == IF "n" \in DOMAIN v THEN toString(v.n) ELSE v.s

\* construct_param_string without the sort
construct_param_string_unsorted(params) ==
  LET keys == FilterNotH(ObjectKeys(params))
      pairs == [i \in 1..Len(keys) |->
                  keys[i] \o <<"=">> \o Template(Get(params, keys[i]))]
  IN  Join(pairs, <<"&">>)

construct_param_string(params) ==
  LET keys == Sort(FilterNotH(ObjectKeys(params)))
      pairs == [i \in 1..Len(keys) |->
                  keys[i] \o <<"=">> \o Template(Get(params, keys[i]))]
  IN  Join(pairs, <<"&">>)

\* the properties a parameter object may hold: id, nonce and otp always,
\* h, sl and timestamp possibly
KeyId == <<"i", "d">>
KeyNonce == <<"n", "o", "n", "c", "e">>
KeyOtp == <<"o", "t", "p">>
KeyH == <<"h">>
KeySl == <<"s", "l">>
KeyTimestamp == <<"t", "i", "m", "e", "s", "t", "a", "m", "p">>

ParamValue ==
  (KeyId :> Str(<<"1">>))
  @@ (KeyNonce :> Str(<<"a", "b", "c">>))
  @@ (KeyOtp :> Str(<<"c", "c", "c", "c", "c", "c", "b">>))
  @@ (KeyH :> Str(<<"s", "+", "g", "=">>))
  @@ (KeySl :> [n |-> 25])
  @@ (KeyTimestamp :> Str(<<"1">>))

\* the orders the keys K can be inserted in
RECURSIVE Orders(_)
Orders(K) ==
  IF K = {} THEN {<<>>}
  ELSE UNION {{<<k>> \o o : o \in Orders(K \ {k})} : k \in K}

\* the objects holding exactly the keys K, in every insertion order, the
\* client id a string or a number
Objects(K) ==
  {[i \in 1..Len(o) |->
      <<o[i], IF o[i] = KeyId THEN id ELSE ParamValue[o[i]]>>] :
     o \in Orders(K), id \in {ParamValue[KeyId], [n |-> 1]}}

ParamObjects ==
  UNION {Objects({KeyId, KeyNonce, KeyOtp} \cup K) :
           K \in {{}, {KeyH}, {KeySl}, {KeyH, KeyTimestamp}}}

InitParams ==
  /\ rev = "current"
  /\ cfg = <<>>
  /\ now = 0
  /\ gen = None
  /\ call = None
  /\ ver = None
  /\ yubi \in {[params |-> p, string |-> None] : p \in ParamObjects}

Construct ==
  /\ yubi # None
  /\ yubi' = [yubi EXCEPT !.string = construct_param_string(yubi.params)]
  /\ call' = [op |-> "construct_param_string", arg |-> yubi.params,
              otp |-> None, threw |-> FALSE, at |-> now]
  /\ UNCHANGED <<rev, cfg, now, gen, ver>>

NextParams == Construct

SpecParams == InitParams /\ [][NextParams]_vars

(***************************************************************************)
(* Strings of the YubiKey client: String.prototype operations on sequences *)
(* of characters.  Positions are those of the code (from 0).               *)
(***************************************************************************)
\* String.prototype.indexOf(c) for a one-character c: -1 when absent
IndexOf(s, c) ==
  IF \A i \in 1..Len(s) : s[i] # c THEN -1
  ELSE (CHOOSE i \in 1..Len(s) :
          s[i] = c /\ \A j \in 1..(i - 1) : s[j] # c) - 1

\* String.prototype.substring(start, end): both clamped to 0..length, and
\* swapped when start > end
Clamp(i, n) == IF i < 0 THEN 0 ELSE IF i > n THEN n ELSE i

Substring(s, start, end) ==
  LET a == Clamp(start, Len(s))
      b == Clamp(end, Len(s))
  IN  IF a <= b THEN SubSeq(s, a + 1, b) ELSE SubSeq(s, b + 1, a)

\* String.prototype.substring(start)
SubstringFrom(s, start) == Substring(s, start, Len(s))

WhiteSpace == {" ", "\r", "\n"}

\* the positions of s that hold no white space
Inked(s) == {i \in 1..Len(s) : s[i] \notin WhiteSpace}

TrimStart(s) ==
  IF Inked(s) = {} THEN <<>>
  ELSE SubSeq(s, CHOOSE i \in Inked(s) : \A j \in Inked(s) : i <= j, Len(s))

TrimEnd(s) ==
  IF Inked(s) = {} THEN <<>>
  ELSE SubSeq(s, 1, CHOOSE i \in Inked(s) : \A j \in Inked(s) : j <= i)

\* String.prototype.trim()
Trim(s) == TrimEnd(TrimStart(s))

\* the positions of s where a "\r\n" starts
Breaks(s) == {i \in 1..(Len(s) - 1) : s[i] = "\r" /\ s[i + 1] = "\n"}

\* String.prototype.split('\r\n') of s from position from on
RECURSIVE SplitCRLF(_, _)
SplitCRLF(s, from) ==
  Bind({i \in Breaks(s) : i >= from}, LAMBDA rest :
    IF rest = {} THEN <<SubSeq(s, from, Len(s))>>
    ELSE Bind(CHOOSE i \in rest : \A j \in rest : i <= j, LAMBDA next :
           <<SubSeq(s, from, next - 1)>> \o SplitCRLF(s, next + 2)))

\* String.prototype.split('Z')[0]
BeforeZ(s) ==
  IF IndexOf(s, "Z") = -1 THEN s ELSE Substring(s, 0, IndexOf(s, "Z"))

\* String.prototype.replace(/-/g, '')
NotDash(c) == c # "-"

RemoveDashes(s) == SelectSeq(s, NotDash)

\* the decimal digits a string starts with
RECURSIVE LeadingDigits(_)
LeadingDigits(s) ==
  IF s # <<>> /\ \E d \in 1..10 : DigitChar[d] = Head(s)
  THEN <<Head(s)>> \o LeadingDigits(Tail(s))
  ELSE <<>>

\* parseInt(s) of a trimmed, unsigned string: NaN when it starts with no
\* digit
ParseInt(s) ==
  IF LeadingDigits(s) = <<>> THEN [nan |-> TRUE]
  ELSE [n |-> Number(LeadingDigits(s))]

(***************************************************************************)
(* Objects of the YubiKey client: sequences of <<key, value>> properties.  *)
(* A value is a string [s |-> chars], a number [n |-> value], a boolean    *)
(* [b |-> value] or a Date [date |-> chars].                               *)
(***************************************************************************)
Bool(b) == [b |-> b]

\* key in obj
Has(obj, key) == \E i \in 1..Len(obj) : obj[i][1] = key

\* obj[key] = value : replaces the value of a property the object has, adds
\* the property after the others when it has not
Assign(obj, key, value) ==
  IF Has(obj, key)
  THEN [i \in 1..Len(obj) |->
          IF obj[i][1] = key THEN <<key, value>> ELSE obj[i]]
  ELSE Append(obj, <<key, value>>)

\* {...a, ...b}
RECURSIVE Spread(_, _)
Spread(a, b) ==
  IF b = <<>> THEN a ELSE Spread(Assign(a, Head(b)[1], Head(b)[2]), Tail(b))

(***************************************************************************)
(* YubiKeyOTP: the request of verify, the parser of validate, the result.  *)
(***************************************************************************)
KeyT == <<"t">>
KeyStatus == <<"s", "t", "a", "t", "u", "s">>
KeyIsOk == <<"i", "s", "O", "k">>
KeyDeviceId == <<"d", "e", "v", "i", "c", "e", "I", "d">>
KeySignatureValid ==
  <<"s", "i", "g", "n", "a", "t", "u", "r", "e", "V", "a", "l", "i", "d">>
KeyValid == <<"v", "a", "l", "i", "d">>

\* YubiKeyOTP.ValidationStatus
StatusOK == <<"O", "K">>
StatusReplayedOtp ==
  <<"R", "E", "P", "L", "A", "Y", "E", "D", "_", "O", "T", "P">>

\* the default of config.serviceUrl
DefaultServiceUrl ==
  <<"h", "t", "t", "p", "s", ":", "/", "/", "a", "p", "i", ".", "y", "u",
    "b", "i", "c", "o", ".", "c", "o", "m", "/", "w", "s", "a", "p", "i",
    "/", "2", ".", "0", "/", "v", "e", "r", "i", "f", "y">>

\* the API key of the client, base64 text
ApiKey == "bXlzZWNyZXRhcGlrZXkxMjM0NTY="

(***************************************************************************)
(* HMAC-SHA1 of the YubiKey client.  createHmac is a library function; its *)
(* base64 digests on the messages of the model are tabulated:              *)
(* SignatureTable[<<apiKey, octets>>] is the signature of the octets under *)
(* the key the base64 text apiKey decodes to.                              *)
(***************************************************************************)
SignatureTable ==
  (<<ApiKey, <<>>>>
     :> <<"w", "9", "r", "4", "g", "9", "l", "v", "b", "j", "F", "8", "0",
        "o", "q", "/", "N", "l", "X", "w", "J", "H", "W", "+", "A", "P", "E",
        "=">>)
  @@ (<<ApiKey, <<100, 101, 118, 105, 99, 101, 73, 100, 61, 118, 118, 118, 118, 118,
      118, 118, 118, 118, 118, 118, 118, 38, 105, 115, 79, 107, 61, 116, 114,
      117, 101, 38, 110, 111, 110, 99, 101, 61, 48, 97, 49, 98, 50, 99, 51,
      100, 52, 101, 53, 102, 52, 97, 54, 98, 56, 99, 55, 100, 57, 101, 48,
      102, 49, 97, 50, 98, 51, 99, 52, 100, 38, 111, 116, 112, 61, 118, 118,
      118, 118, 118, 118, 118, 118, 118, 118, 118, 118, 107, 119, 106, 106,
      38, 115, 105, 103, 110, 97, 116, 117, 114, 101, 86, 97, 108, 105, 100,
      61, 116, 114, 117, 101, 38, 115, 108, 61, 50, 53, 38, 115, 116, 97,
      116, 117, 115, 61, 82, 69, 80, 76, 65, 89, 69, 68, 95, 79, 84, 80, 38,
      116, 61, 50, 48, 50, 52, 45, 48, 49, 45, 48, 49, 84, 48, 48, 58, 48,
      48, 58, 48, 48, 90, 48, 49, 50, 51, 38, 118, 97, 108, 105, 100, 61,
      116, 114, 117, 101>>>>
     :> <<"i", "7", "y", "u", "q", "a", "e", "f", "y", "w", "r", "3", "8",
        "W", "w", "j", "X", "3", "8", "R", "o", "6", "j", "3", "r", "/", "M",
        "=">>)
  @@ (<<ApiKey, <<100, 101, 118, 105, 99, 101, 73, 100, 61, 118, 118, 118, 118, 118,
      118, 118, 118, 118, 118, 118, 118, 38, 105, 115, 79, 107, 61, 116, 114,
      117, 101, 38, 110, 111, 110, 99, 101, 61, 51, 102, 50, 97, 49, 98, 52,
      99, 53, 100, 54, 101, 52, 102, 55, 48, 56, 97, 57, 98, 48, 99, 49, 100,
      50, 101, 51, 102, 52, 97, 53, 98, 38, 111, 116, 112, 61, 118, 118, 118,
      118, 118, 118, 118, 118, 118, 118, 118, 118, 107, 119, 106, 106, 38,
      115, 105, 103, 110, 97, 116, 117, 114, 101, 86, 97, 108, 105, 100, 61,
      116, 114, 117, 101, 38, 115, 108, 61, 50, 53, 38, 115, 116, 97, 116,
      117, 115, 61, 82, 69, 80, 76, 65, 89, 69, 68, 95, 79, 84, 80, 38, 116,
      61, 50, 48, 50, 52, 45, 48, 49, 45, 48, 49, 84, 48, 48, 58, 48, 48, 58,
      48, 48, 90, 48, 49, 50, 51, 38, 118, 97, 108, 105, 100, 61, 116, 114,
      117, 101>>>>
     :> <<"k", "X", "5", "y", "c", "v", "a", "9", "n", "f", "J", "E", "h",
        "z", "X", "b", "1", "4", "u", "4", "N", "T", "Y", "g", "c", "G", "M",
        "=">>)
  @@ (<<ApiKey, <<100, 101, 118, 105, 99, 101, 73, 100, 61, 118, 118, 118, 118, 118,
      118, 118, 118, 118, 118, 118, 118, 38, 105, 115, 79, 107, 61, 116, 114,
      117, 101, 38, 110, 111, 110, 99, 101, 61, 55, 101, 54, 100, 53, 99, 52,
      98, 51, 97, 50, 57, 52, 49, 56, 48, 98, 57, 97, 56, 99, 55, 100, 54,
      101, 53, 102, 52, 97, 51, 98, 50, 38, 111, 116, 112, 61, 118, 118, 118,
      118, 118, 118, 118, 118, 118, 118, 118, 118, 107, 119, 106, 106, 38,
      115, 105, 103, 110, 97, 116, 117, 114, 101, 86, 97, 108, 105, 100, 61,
      116, 114, 117, 101, 38, 115, 108, 61, 50, 53, 38, 115, 116, 97, 116,
      117, 115, 61, 82, 69, 80, 76, 65, 89, 69, 68, 95, 79, 84, 80, 38, 116,
      61, 50, 48, 50, 52, 45, 48, 49, 45, 48, 49, 84, 48, 48, 58, 48, 48, 58,
      48, 48, 90, 48, 49, 50, 51, 38, 118, 97, 108, 105, 100, 61, 116, 114,
      117, 101>>>>
     :> <<"1", "5", "B", "B", "3", "X", "d", "L", "9", "D", "j", "m", "i",
        "I", "t", "v", "2", "c", "X", "I", "X", "q", "W", "L", "T", "Q", "o",
        "=">>)
  @@ (<<ApiKey, <<100, 101, 118, 105, 99, 101, 73, 100, 61, 118, 118, 118, 118, 118,
      118, 118, 118, 118, 118, 118, 118, 38, 105, 115, 79, 107, 61, 116, 114,
      117, 101, 38, 110, 111, 110, 99, 101, 61, 57, 98, 56, 99, 55, 100, 54,
      101, 53, 102, 52, 97, 52, 98, 51, 99, 57, 100, 50, 101, 49, 102, 48,
      97, 57, 98, 56, 99, 55, 100, 54, 101, 38, 111, 116, 112, 61, 118, 118,
      118, 118, 118, 118, 118, 118, 118, 118, 118, 118, 107, 119, 106, 106,
      38, 115, 105, 103, 110, 97, 116, 117, 114, 101, 86, 97, 108, 105, 100,
      61, 116, 114, 117, 101, 38, 115, 108, 61, 50, 53, 38, 115, 116, 97,
      116, 117, 115, 61, 82, 69, 80, 76, 65, 89, 69, 68, 95, 79, 84, 80, 38,
      116, 61, 50, 48, 50, 52, 45, 48, 49, 45, 48, 49, 84, 48, 48, 58, 48,
      48, 58, 48, 48, 90, 48, 49, 50, 51, 38, 118, 97, 108, 105, 100, 61,
      116, 114, 117, 101>>>>
     :> <<"M", "B", "/", "x", "a", "h", "q", "5", "O", "K", "x", "E", "Z",
        "t", "f", "4", "/", "x", "x", "t", "D", "4", "J", "R", "u", "8", "A",
        "=">>)
  @@ (<<ApiKey, <<105, 100, 61, 49, 38, 110, 111, 110, 99, 101, 61, 48, 97, 49, 98, 50,
      99, 51, 100, 52, 101, 53, 102, 52, 97, 54, 98, 56, 99, 55, 100, 57,
      101, 48, 102, 49, 97, 50, 98, 51, 99, 52, 100, 38, 111, 116, 112, 61,
      49, 50, 51, 52, 53, 54>>>>
     :> <<"3", "P", "6", "v", "X", "L", "2", "u", "B", "L", "Q", "4", "Q",
        "w", "S", "1", "P", "M", "e", "V", "d", "v", "0", "w", "0", "Y", "o",
        "=">>)
  @@ (<<ApiKey, <<105, 100, 61, 49, 38, 110, 111, 110, 99, 101, 61, 48, 97, 49, 98, 50,
      99, 51, 100, 52, 101, 53, 102, 52, 97, 54, 98, 56, 99, 55, 100, 57,
      101, 48, 102, 49, 97, 50, 98, 51, 99, 52, 100, 38, 111, 116, 112, 61,
      49, 50, 51, 52, 53, 54, 38, 116, 105, 109, 101, 115, 116, 97, 109, 112,
      61, 49>>>>
     :> <<"y", "O", "Q", "O", "Y", "Y", "6", "E", "W", "X", "B", "q", "Q",
        "Q", "b", "j", "w", "L", "C", "9", "R", "B", "o", "y", "n", "m", "4",
        "=">>)
  @@ (<<ApiKey, <<105, 100, 61, 49, 38, 110, 111, 110, 99, 101, 61, 48, 97, 49, 98, 50,
      99, 51, 100, 52, 101, 53, 102, 52, 97, 54, 98, 56, 99, 55, 100, 57,
      101, 48, 102, 49, 97, 50, 98, 51, 99, 52, 100, 38, 111, 116, 112, 61,
      99, 99, 99, 99, 99, 99, 98, 116, 98, 118, 107, 119, 106, 106>>>>
     :> <<"o", "t", "x", "O", "A", "P", "D", "S", "b", "3", "s", "f", "G",
        "C", "p", "n", "Q", "3", "+", "5", "q", "7", "M", "Z", "N", "x", "w",
        "=">>)
  @@ (<<ApiKey, <<105, 100, 61, 49, 38, 110, 111, 110, 99, 101, 61, 48, 97, 49, 98, 50,
      99, 51, 100, 52, 101, 53, 102, 52, 97, 54, 98, 56, 99, 55, 100, 57,
      101, 48, 102, 49, 97, 50, 98, 51, 99, 52, 100, 38, 111, 116, 112, 61,
      99, 99, 99, 99, 99, 99, 98, 116, 98, 118, 107, 119, 106, 106, 38, 116,
      105, 109, 101, 115, 116, 97, 109, 112, 61, 49>>>>
     :> <<"N", "0", "p", "g", "4", "t", "l", "E", "E", "h", "L", "X", "s",
        "1", "u", "Z", "n", "R", "d", "n", "T", "Z", "e", "s", "+", "L", "c",
        "=">>)
  @@ (<<ApiKey, <<105, 100, 61, 49, 38, 110, 111, 110, 99, 101, 61, 51, 102, 50, 97,
      49, 98, 52, 99, 53, 100, 54, 101, 52, 102, 55, 48, 56, 97, 57, 98, 48,
      99, 49, 100, 50, 101, 51, 102, 52, 97, 53, 98, 38, 111, 116, 112, 61,
      49, 50, 51, 52, 53, 54>>>>
     :> <<"/", "r", "v", "M", "6", "Y", "8", "u", "O", "+", "+", "J", "P",
        "G", "n", "s", "C", "m", "d", "J", "l", "X", "W", "s", "Y", "G", "U",
        "=">>)
  @@ (<<ApiKey, <<105, 100, 61, 49, 38, 110, 111, 110, 99, 101, 61, 51, 102, 50, 97,
      49, 98, 52, 99, 53, 100, 54, 101, 52, 102, 55, 48, 56, 97, 57, 98, 48,
      99, 49, 100, 50, 101, 51, 102, 52, 97, 53, 98, 38, 111, 116, 112, 61,
      49, 50, 51, 52, 53, 54, 38, 116, 105, 109, 101, 115, 116, 97, 109, 112,
      61, 49>>>>
     :> <<"Q", "d", "4", "f", "H", "O", "9", "S", "x", "h", "H", "a", "Z",
        "m", "d", "4", "Q", "Z", "f", "8", "r", "E", "c", "h", "m", "e", "A",
        "=">>)
  @@ (<<ApiKey, <<105, 100, 61, 49, 38, 110, 111, 110, 99, 101, 61, 51, 102, 50, 97,
      49, 98, 52, 99, 53, 100, 54, 101, 52, 102, 55, 48, 56, 97, 57, 98, 48,
      99, 49, 100, 50, 101, 51, 102, 52, 97, 53, 98, 38, 111, 116, 112, 61,
      99, 99, 99, 99, 99, 99, 98, 116, 98, 118, 107, 119, 106, 106>>>>
     :> <<"m", "7", "E", "z", "W", "5", "N", "Y", "/", "O", "S", "G", "X",
        "2", "4", "C", "w", "x", "h", "o", "s", "K", "z", "J", "J", "z", "0",
        "=">>)
  @@ (<<ApiKey, <<105, 100, 61, 49, 38, 110, 111, 110, 99, 101, 61, 51, 102, 50, 97,
      49, 98, 52, 99, 53, 100, 54, 101, 52, 102, 55, 48, 56, 97, 57, 98, 48,
      99, 49, 100, 50, 101, 51, 102, 52, 97, 53, 98, 38, 111, 116, 112, 61,
      99, 99, 99, 99, 99, 99, 98, 116, 98, 118, 107, 119, 106, 106, 38, 116,
      105, 109, 101, 115, 116, 97, 109, 112, 61, 49>>>>
     :> <<"A", "y", "E", "E", "7", "r", "L", "q", "z", "6", "L", "M", "a",
        "D", "g", "F", "7", "n", "y", "3", "7", "H", "9", "r", "v", "R", "8",
        "=">>)
  @@ (<<ApiKey, <<105, 100, 61, 49, 38, 110, 111, 110, 99, 101, 61, 55, 101, 54, 100,
      53, 99, 52, 98, 51, 97, 50, 57, 52, 49, 56, 48, 98, 57, 97, 56, 99, 55,
      100, 54, 101, 53, 102, 52, 97, 51, 98, 50, 38, 111, 116, 112, 61, 49,
      50, 51, 52, 53, 54>>>>
     :> <<"h", "0", "t", "1", "d", "K", "o", "2", "a", "1", "H", "D", "5",
        "/", "J", "N", "h", "K", "T", "M", "g", "M", "9", "A", "2", "4", "I",
        "=">>)
  @@ (<<ApiKey, <<105, 100, 61, 49, 38, 110, 111, 110, 99, 101, 61, 55, 101, 54, 100,
      53, 99, 52, 98, 51, 97, 50, 57, 52, 49, 56, 48, 98, 57, 97, 56, 99, 55,
      100, 54, 101, 53, 102, 52, 97, 51, 98, 50, 38, 111, 116, 112, 61, 49,
      50, 51, 52, 53, 54, 38, 116, 105, 109, 101, 115, 116, 97, 109, 112, 61,
      49>>>>
     :> <<"Y", "K", "L", "t", "d", "4", "b", "7", "1", "v", "X", "F", "j",
        "E", "R", "4", "2", "X", "I", "Y", "d", "R", "A", "1", "4", "B", "U",
        "=">>)
  @@ (<<ApiKey, <<105, 100, 61, 49, 38, 110, 111, 110, 99, 101, 61, 55, 101, 54, 100,
      53, 99, 52, 98, 51, 97, 50, 57, 52, 49, 56, 48, 98, 57, 97, 56, 99, 55,
      100, 54, 101, 53, 102, 52, 97, 51, 98, 50, 38, 111, 116, 112, 61, 99,
      99, 99, 99, 99, 99, 98, 116, 98, 118, 107, 119, 106, 106>>>>
     :> <<"i", "j", "u", "g", "b", "K", "2", "I", "l", "k", "P", "v", "R",
        "s", "y", "b", "p", "V", "s", "F", "X", "E", "t", "i", "a", "j", "g",
        "=">>)
  @@ (<<ApiKey, <<105, 100, 61, 49, 38, 110, 111, 110, 99, 101, 61, 55, 101, 54, 100,
      53, 99, 52, 98, 51, 97, 50, 57, 52, 49, 56, 48, 98, 57, 97, 56, 99, 55,
      100, 54, 101, 53, 102, 52, 97, 51, 98, 50, 38, 111, 116, 112, 61, 99,
      99, 99, 99, 99, 99, 98, 116, 98, 118, 107, 119, 106, 106, 38, 116, 105,
      109, 101, 115, 116, 97, 109, 112, 61, 49>>>>
     :> <<"Y", "K", "q", "8", "s", "f", "0", "m", "u", "x", "a", "i", "m",
        "b", "+", "J", "6", "r", "U", "g", "o", "+", "l", "p", "q", "P", "8",
        "=">>)
  @@ (<<ApiKey, <<105, 100, 61, 49, 38, 110, 111, 110, 99, 101, 61, 57, 98, 56, 99, 55,
      100, 54, 101, 53, 102, 52, 97, 52, 98, 51, 99, 57, 100, 50, 101, 49,
      102, 48, 97, 57, 98, 56, 99, 55, 100, 54, 101, 38, 111, 116, 112, 61,
      49, 50, 51, 52, 53, 54>>>>
     :> <<"S", "q", "E", "H", "1", "9", "+", "4", "z", "4", "Y", "/", "0",
        "b", "f", "1", "A", "R", "F", "8", "M", "w", "0", "d", "p", "J", "I",
        "=">>)
  @@ (<<ApiKey, <<105, 100, 61, 49, 38, 110, 111, 110, 99, 101, 61, 57, 98, 56, 99, 55,
      100, 54, 101, 53, 102, 52, 97, 52, 98, 51, 99, 57, 100, 50, 101, 49,
      102, 48, 97, 57, 98, 56, 99, 55, 100, 54, 101, 38, 111, 116, 112, 61,
      49, 50, 51, 52, 53, 54, 38, 116, 105, 109, 101, 115, 116, 97, 109, 112,
      61, 49>>>>
     :> <<"B", "y", "a", "C", "O", "O", "G", "y", "h", "Q", "w", "T", "s",
        "r", "h", "n", "A", "o", "s", "m", "T", "6", "2", "p", "0", "/", "Q",
        "=">>)
  @@ (<<ApiKey, <<105, 100, 61, 49, 38, 110, 111, 110, 99, 101, 61, 57, 98, 56, 99, 55,
      100, 54, 101, 53, 102, 52, 97, 52, 98, 51, 99, 57, 100, 50, 101, 49,
      102, 48, 97, 57, 98, 56, 99, 55, 100, 54, 101, 38, 111, 116, 112, 61,
      99, 99, 99, 99, 99, 99, 98, 116, 98, 118, 107, 119, 106, 106>>>>
     :> <<"q", "u", "O", "m", "9", "i", "m", "7", "p", "b", "t", "H", "e",
        "D", "Z", "Z", "M", "E", "u", "N", "E", "/", "o", "d", "+", "9", "k",
        "=">>)
  @@ (<<ApiKey, <<105, 100, 61, 49, 38, 110, 111, 110, 99, 101, 61, 57, 98, 56, 99, 55,
      100, 54, 101, 53, 102, 52, 97, 52, 98, 51, 99, 57, 100, 50, 101, 49,
      102, 48, 97, 57, 98, 56, 99, 55, 100, 54, 101, 38, 111, 116, 112, 61,
      99, 99, 99, 99, 99, 99, 98, 116, 98, 118, 107, 119, 106, 106, 38, 116,
      105, 109, 101, 115, 116, 97, 109, 112, 61, 49>>>>
     :> <<"z", "t", "9", "c", "Z", "V", "7", "c", "k", "G", "Y", "A", "4",
        "u", "R", "H", "L", "9", "d", "A", "3", "G", "j", "i", "b", "P", "w",
        "=">>)
  @@ (<<ApiKey, <<105, 100, 61, 49, 38, 110, 111, 110, 99, 101, 61, 97, 98, 99, 38,
      111, 116, 112, 61, 49, 50, 51, 52, 53, 54, 38, 116, 105, 109, 101, 115,
      116, 97, 109, 112, 61, 49>>>>
     :> <<"1", "D", "q", "E", "m", "5", "9", "R", "X", "i", "N", "t", "I",
        "q", "0", "n", "v", "g", "i", "8", "x", "n", "C", "R", "M", "5", "E",
        "=">>)
  @@ (<<ApiKey, <<105, 100, 61, 49, 38, 110, 111, 110, 99, 101, 61, 97, 98, 99, 38,
      111, 116, 112, 61, 99, 99, 99, 99, 99, 99, 98, 116, 98, 118, 107, 119,
      106, 106, 38, 116, 105, 109, 101, 115, 116, 97, 109, 112, 61, 49>>>>
     :> <<"+", "A", "U", "b", "B", "G", "U", "9", "z", "e", "Y", "d", "A",
        "w", "g", "m", "h", "y", "n", "i", "I", "K", "b", "o", "I", "5", "E",
        "=">>)
  @@ (<<ApiKey, <<110, 111, 110, 99, 101, 61, 48, 97, 49, 98, 50, 99, 51, 100, 52, 101,
      53, 102, 52, 97, 54, 98, 56, 99, 55, 100, 57, 101, 48, 102, 49, 97, 50,
      98, 51, 99, 52, 100, 38, 111, 116, 112, 61, 49, 50, 51, 52, 53, 54, 38,
      115, 108, 61, 50, 53, 38, 115, 116, 97, 116, 117, 115, 61, 79, 75, 38,
      116, 61, 50, 48, 50, 52, 45, 48, 49, 45, 48, 49, 84, 48, 48, 58, 48,
      48, 58, 48, 48, 90, 48, 49, 50, 51>>>>
     :> <<"q", "t", "a", "w", "s", "0", "8", "W", "Y", "9", "b", "U", "C",
        "x", "+", "/", "H", "h", "X", "Z", "N", "i", "f", "5", "/", "7", "U",
        "=">>)
  @@ (<<ApiKey, <<110, 111, 110, 99, 101, 61, 48, 97, 49, 98, 50, 99, 51, 100, 52, 101,
      53, 102, 52, 97, 54, 98, 56, 99, 55, 100, 57, 101, 48, 102, 49, 97, 50,
      98, 51, 99, 52, 100, 38, 111, 116, 112, 61, 49, 50, 51, 52, 53, 54, 38,
      115, 108, 61, 50, 53, 38, 115, 116, 97, 116, 117, 115, 61, 82, 69, 80,
      76, 65, 89, 69, 68, 95, 79, 84, 80, 38, 116, 61, 50, 48, 50, 52, 45,
      48, 49, 45, 48, 49, 84, 48, 48, 58, 48, 48, 58, 48, 48, 90, 48, 49, 50,
      51>>>>
     :> <<"2", "S", "z", "L", "o", "c", "G", "h", "r", "r", "Q", "P", "3",
        "9", "C", "b", "j", "P", "9", "M", "k", "O", "k", "C", "N", "L", "A",
        "=">>)
  @@ (<<ApiKey, <<110, 111, 110, 99, 101, 61, 48, 97, 49, 98, 50, 99, 51, 100, 52, 101,
      53, 102, 52, 97, 54, 98, 56, 99, 55, 100, 57, 101, 48, 102, 49, 97, 50,
      98, 51, 99, 52, 100, 38, 111, 116, 112, 61, 99, 99, 99, 99, 99, 99, 98,
      116, 98, 118, 107, 119, 106, 106, 38, 115, 108, 61, 50, 53, 38, 115,
      116, 97, 116, 117, 115, 61, 79, 75, 38, 116, 61, 50, 48, 50, 52, 45,
      48, 49, 45, 48, 49, 84, 48, 48, 58, 48, 48, 58, 48, 48, 90, 48, 49, 50,
      51>>>>
     :> <<"8", "5", "Q", "f", "u", "l", "4", "+", "N", "y", "r", "K", "P",
        "h", "j", "N", "1", "B", "Y", "S", "G", "S", "Z", "U", "H", "r", "8",
        "=">>)
  @@ (<<ApiKey, <<110, 111, 110, 99, 101, 61, 48, 97, 49, 98, 50, 99, 51, 100, 52, 101,
      53, 102, 52, 97, 54, 98, 56, 99, 55, 100, 57, 101, 48, 102, 49, 97, 50,
      98, 51, 99, 52, 100, 38, 111, 116, 112, 61, 99, 99, 99, 99, 99, 99, 98,
      116, 98, 118, 107, 119, 106, 106, 38, 115, 108, 61, 50, 53, 38, 115,
      116, 97, 116, 117, 115, 61, 82, 69, 80, 76, 65, 89, 69, 68, 95, 79, 84,
      80, 38, 116, 61, 50, 48, 50, 52, 45, 48, 49, 45, 48, 49, 84, 48, 48,
      58, 48, 48, 58, 48, 48, 90, 48, 49, 50, 51>>>>
     :> <<"W", "E", "A", "N", "B", "m", "o", "d", "j", "m", "u", "q", "a",
        "N", "G", "g", "A", "/", "f", "P", "+", "O", "N", "y", "R", "0", "M",
        "=">>)
  @@ (<<ApiKey, <<110, 111, 110, 99, 101, 61, 51, 102, 50, 97, 49, 98, 52, 99, 53, 100,
      54, 101, 52, 102, 55, 48, 56, 97, 57, 98, 48, 99, 49, 100, 50, 101, 51,
      102, 52, 97, 53, 98, 38, 111, 116, 112, 61, 49, 50, 51, 52, 53, 54, 38,
      115, 108, 61, 50, 53, 38, 115, 116, 97, 116, 117, 115, 61, 79, 75, 38,
      116, 61, 50, 48, 50, 52, 45, 48, 49, 45, 48, 49, 84, 48, 48, 58, 48,
      48, 58, 48, 48, 90, 48, 49, 50, 51>>>>
     :> <<"p", "/", "8", "n", "D", "R", "M", "o", "8", "x", "y", "V", "e",
        "R", "p", "h", "3", "2", "D", "4", "7", "D", "W", "V", "3", "F", "Q",
        "=">>)
  @@ (<<ApiKey, <<110, 111, 110, 99, 101, 61, 51, 102, 50, 97, 49, 98, 52, 99, 53, 100,
      54, 101, 52, 102, 55, 48, 56, 97, 57, 98, 48, 99, 49, 100, 50, 101, 51,
      102, 52, 97, 53, 98, 38, 111, 116, 112, 61, 49, 50, 51, 52, 53, 54, 38,
      115, 108, 61, 50, 53, 38, 115, 116, 97, 116, 117, 115, 61, 82, 69, 80,
      76, 65, 89, 69, 68, 95, 79, 84, 80, 38, 116, 61, 50, 48, 50, 52, 45,
      48, 49, 45, 48, 49, 84, 48, 48, 58, 48, 48, 58, 48, 48, 90, 48, 49, 50,
      51>>>>
     :> <<"/", "6", "j", "B", "o", "P", "E", "q", "3", "5", "b", "5", "m",
        "z", "q", "t", "s", "v", "q", "g", "0", "J", "6", "Z", "z", "7", "0",
        "=">>)
  @@ (<<ApiKey, <<110, 111, 110, 99, 101, 61, 51, 102, 50, 97, 49, 98, 52, 99, 53, 100,
      54, 101, 52, 102, 55, 48, 56, 97, 57, 98, 48, 99, 49, 100, 50, 101, 51,
      102, 52, 97, 53, 98, 38, 111, 116, 112, 61, 99, 99, 99, 99, 99, 99, 98,
      116, 98, 118, 107, 119, 106, 106, 38, 115, 108, 61, 50, 53, 38, 115,
      116, 97, 116, 117, 115, 61, 79, 75, 38, 116, 61, 50, 48, 50, 52, 45,
      48, 49, 45, 48, 49, 84, 48, 48, 58, 48, 48, 58, 48, 48, 90, 48, 49, 50,
      51>>>>
     :> <<"V", "u", "x", "9", "D", "m", "0", "p", "B", "G", "3", "t", "w",
        "Y", "8", "V", "Q", "K", "E", "d", "Z", "X", "z", "h", "m", "m", "k",
        "=">>)
  @@ (<<ApiKey, <<110, 111, 110, 99, 101, 61, 51, 102, 50, 97, 49, 98, 52, 99, 53, 100,
      54, 101, 52, 102, 55, 48, 56, 97, 57, 98, 48, 99, 49, 100, 50, 101, 51,
      102, 52, 97, 53, 98, 38, 111, 116, 112, 61, 99, 99, 99, 99, 99, 99, 98,
      116, 98, 118, 107, 119, 106, 106, 38, 115, 108, 61, 50, 53, 38, 115,
      116, 97, 116, 117, 115, 61, 82, 69, 80, 76, 65, 89, 69, 68, 95, 79, 84,
      80, 38, 116, 61, 50, 48, 50, 52, 45, 48, 49, 45, 48, 49, 84, 48, 48,
      58, 48, 48, 58, 48, 48, 90, 48, 49, 50, 51>>>>
     :> <<"h", "L", "T", "m", "U", "R", "w", "J", "e", "5", "5", "W", "t",
        "I", "J", "b", "F", "0", "V", "A", "s", "+", "5", "7", "G", "s", "Y",
        "=">>)
  @@ (<<ApiKey, <<110, 111, 110, 99, 101, 61, 55, 101, 54, 100, 53, 99, 52, 98, 51, 97,
      50, 57, 52, 49, 56, 48, 98, 57, 97, 56, 99, 55, 100, 54, 101, 53, 102,
      52, 97, 51, 98, 50, 38, 111, 116, 112, 61, 49, 50, 51, 52, 53, 54, 38,
      115, 108, 61, 50, 53, 38, 115, 116, 97, 116, 117, 115, 61, 79, 75, 38,
      116, 61, 50, 48, 50, 52, 45, 48, 49, 45, 48, 49, 84, 48, 48, 58, 48,
      48, 58, 48, 48, 90, 48, 49, 50, 51>>>>
     :> <<"D", "O", "L", "f", "W", "b", "s", "U", "K", "N", "k", "W", "L",
        "Q", "X", "k", "V", "a", "V", "g", "+", "Q", "F", "O", "S", "W", "4",
        "=">>)
  @@ (<<ApiKey, <<110, 111, 110, 99, 101, 61, 55, 101, 54, 100, 53, 99, 52, 98, 51, 97,
      50, 57, 52, 49, 56, 48, 98, 57, 97, 56, 99, 55, 100, 54, 101, 53, 102,
      52, 97, 51, 98, 50, 38, 111, 116, 112, 61, 49, 50, 51, 52, 53, 54, 38,
      115, 108, 61, 50, 53, 38, 115, 116, 97, 116, 117, 115, 61, 82, 69, 80,
      76, 65, 89, 69, 68, 95, 79, 84, 80, 38, 116, 61, 50, 48, 50, 52, 45,
      48, 49, 45, 48, 49, 84, 48, 48, 58, 48, 48, 58, 48, 48, 90, 48, 49, 50,
      51>>>>
     :> <<"o", "C", "p", "+", "/", "Q", "i", "7", "1", "c", "e", "c", "c",
        "l", "Z", "U", "c", "g", "m", "w", "V", "h", "H", "S", "f", "v", "g",
        "=">>)
  @@ (<<ApiKey, <<110, 111, 110, 99, 101, 61, 55, 101, 54, 100, 53, 99, 52, 98, 51, 97,
      50, 57, 52, 49, 56, 48, 98, 57, 97, 56, 99, 55, 100, 54, 101, 53, 102,
      52, 97, 51, 98, 50, 38, 111, 116, 112, 61, 99, 99, 99, 99, 99, 99, 98,
      116, 98, 118, 107, 119, 106, 106, 38, 115, 108, 61, 50, 53, 38, 115,
      116, 97, 116, 117, 115, 61, 79, 75, 38, 116, 61, 50, 48, 50, 52, 45,
      48, 49, 45, 48, 49, 84, 48, 48, 58, 48, 48, 58, 48, 48, 90, 48, 49, 50,
      51>>>>
     :> <<"u", "S", "8", "N", "b", "R", "U", "D", "a", "x", "Q", "e", "4",
        "W", "e", "v", "j", "k", "X", "d", "O", "g", "L", "m", "i", "w", "w",
        "=">>)
  @@ (<<ApiKey, <<110, 111, 110, 99, 101, 61, 55, 101, 54, 100, 53, 99, 52, 98, 51, 97,
      50, 57, 52, 49, 56, 48, 98, 57, 97, 56, 99, 55, 100, 54, 101, 53, 102,
      52, 97, 51, 98, 50, 38, 111, 116, 112, 61, 99, 99, 99, 99, 99, 99, 98,
      116, 98, 118, 107, 119, 106, 106, 38, 115, 108, 61, 50, 53, 38, 115,
      116, 97, 116, 117, 115, 61, 82, 69, 80, 76, 65, 89, 69, 68, 95, 79, 84,
      80, 38, 116, 61, 50, 48, 50, 52, 45, 48, 49, 45, 48, 49, 84, 48, 48,
      58, 48, 48, 58, 48, 48, 90, 48, 49, 50, 51>>>>
     :> <<"0", "K", "H", "a", "D", "5", "y", "T", "1", "A", "5", "l", "c",
        "1", "x", "v", "h", "8", "9", "i", "U", "4", "8", "x", "g", "T", "U",
        "=">>)
  @@ (<<ApiKey, <<110, 111, 110, 99, 101, 61, 57, 98, 56, 99, 55, 100, 54, 101, 53,
      102, 52, 97, 52, 98, 51, 99, 57, 100, 50, 101, 49, 102, 48, 97, 57, 98,
      56, 99, 55, 100, 54, 101, 38, 111, 116, 112, 61, 49, 50, 51, 52, 53,
      54, 38, 115, 108, 61, 50, 53, 38, 115, 116, 97, 116, 117, 115, 61, 79,
      75, 38, 116, 61, 50, 48, 50, 52, 45, 48, 49, 45, 48, 49, 84, 48, 48,
      58, 48, 48, 58, 48, 48, 90, 48, 49, 50, 51>>>>
     :> <<"6", "1", "g", "J", "Y", "w", "U", "W", "G", "d", "f", "+", "f",
        "Y", "w", "V", "D", "P", "8", "X", "0", "D", "7", "l", "D", "G", "k",
        "=">>)
  @@ (<<ApiKey, <<110, 111, 110, 99, 101, 61, 57, 98, 56, 99, 55, 100, 54, 101, 53,
      102, 52, 97, 52, 98, 51, 99, 57, 100, 50, 101, 49, 102, 48, 97, 57, 98,
      56, 99, 55, 100, 54, 101, 38, 111, 116, 112, 61, 49, 50, 51, 52, 53,
      54, 38, 115, 108, 61, 50, 53, 38, 115, 116, 97, 116, 117, 115, 61, 82,
      69, 80, 76, 65, 89, 69, 68, 95, 79, 84, 80, 38, 116, 61, 50, 48, 50,
      52, 45, 48, 49, 45, 48, 49, 84, 48, 48, 58, 48, 48, 58, 48, 48, 90, 48,
      49, 50, 51>>>>
     :> <<"P", "g", "R", "l", "M", "/", "u", "V", "G", "r", "e", "j", "3",
        "j", "0", "N", "3", "6", "P", "j", "R", "u", "k", "Z", "j", "q", "k",
        "=">>)
  @@ (<<ApiKey, <<110, 111, 110, 99, 101, 61, 57, 98, 56, 99, 55, 100, 54, 101, 53,
      102, 52, 97, 52, 98, 51, 99, 57, 100, 50, 101, 49, 102, 48, 97, 57, 98,
      56, 99, 55, 100, 54, 101, 38, 111, 116, 112, 61, 99, 99, 99, 99, 99,
      99, 98, 116, 98, 118, 107, 119, 106, 106, 38, 115, 108, 61, 50, 53, 38,
      115, 116, 97, 116, 117, 115, 61, 79, 75, 38, 116, 61, 50, 48, 50, 52,
      45, 48, 49, 45, 48, 49, 84, 48, 48, 58, 48, 48, 58, 48, 48, 90, 48, 49,
      50, 51>>>>
     :> <<"h", "H", "G", "f", "4", "n", "j", "O", "M", "X", "m", "T", "R",
        "U", "k", "+", "V", "w", "/", "A", "R", "x", "f", "Z", "J", "M", "U",
        "=">>)
  @@ (<<ApiKey, <<110, 111, 110, 99, 101, 61, 57, 98, 56, 99, 55, 100, 54, 101, 53,
      102, 52, 97, 52, 98, 51, 99, 57, 100, 50, 101, 49, 102, 48, 97, 57, 98,
      56, 99, 55, 100, 54, 101, 38, 111, 116, 112, 61, 99, 99, 99, 99, 99,
      99, 98, 116, 98, 118, 107, 119, 106, 106, 38, 115, 108, 61, 50, 53, 38,
      115, 116, 97, 116, 117, 115, 61, 82, 69, 80, 76, 65, 89, 69, 68, 95,
      79, 84, 80, 38, 116, 61, 50, 48, 50, 52, 45, 48, 49, 45, 48, 49, 84,
      48, 48, 58, 48, 48, 58, 48, 48, 90, 48, 49, 50, 51>>>>
     :> <<"K", "k", "h", "H", "z", "p", "8", "b", "p", "l", "J", "7", "t",
        "g", "7", "X", "u", "i", "Z", "Z", "a", "r", "G", "Y", "z", "Q", "w",
        "=">>)
  @@ (<<ApiKey, <<111, 116, 112, 61, 49, 50, 51, 38, 116, 61, 50, 48, 50, 52, 45, 48,
      49, 45, 48, 49, 84, 48, 48, 58, 48, 48, 58, 48, 48, 90, 48, 49, 50,
      51>>>>
     :> <<"u", "M", "Z", "y", "y", "6", "m", "q", "X", "n", "6", "k", "c",
        "f", "r", "1", "H", "v", "o", "L", "6", "E", "n", "S", "d", "+", "k",
        "=">>)
  @@ (<<ApiKey, <<111, 116, 112, 61, 99, 99, 99, 38, 116, 61, 50, 48, 50, 52, 45, 48,
      49, 45, 48, 49, 84, 48, 48, 58, 48, 48, 58, 48, 48, 90, 48, 49, 50,
      51>>>>
     :> <<"G", "n", "4", "l", "T", "a", "l", "V", "l", "T", "K", "5", "b",
        "X", "l", "Y", "I", "u", "s", "M", "d", "o", "S", "5", "K", "S", "Q",
        "=">>)

\* toOctet: the low eight bits of the code unit of every character
toOctet(str) == [i \in 1..Len(str) |-> CharCode[str[i]] % 256]

\* generate_signature: createHmac('sha1', key).update(octets).digest('base64')
generate_signature(message, apiKey) ==
  SignatureTable[<<apiKey, toOctet(message)>>]

\* the object or the value undefined (None) read from a property
PropOrNone(o, k) == IF k \in DOMAIN o THEN o[k] ELSE None

\* verify keeping a nonce the caller put in signingParameters
verifyRequestKeepsNonce(otp, config, uuid) ==
  Bind(IF "n" \in DOMAIN otp THEN toString(otp.n) ELSE otp.s, LAMBDA _otp :
    Bind(NullishAssign(config, "serviceUrl", DefaultServiceUrl),
         LAMBDA _config :
      Bind(RemoveDashes(uuid), LAMBDA nonce :
        Bind(Spread(<<<<KeyId, _config.clientId>>, <<KeyNonce, Str(nonce)>>,
                      <<KeyOtp, Str(_otp)>>>>,
                    PropOrNone(_config, "signingParameters")),
             LAMBDA params :
          Bind(construct_param_string(params), LAMBDA _params :
            Bind(generate_signature(_params, _config.apiKey),
                 LAMBDA signature :
              [otp |-> _otp, config |-> _config, nonce |-> nonce,
               params |-> params, message |-> _params,
               signature |-> signature,
               url |-> _config.serviceUrl \o <<"?">> \o _params
                         \o <<"&", "h", "=">> \o signature]))))))

\* YubiKeyOTP.verify up to the call of validate: the request it builds.
\* uuid stands for the value v4() returns
verifyRequest(otp, config, uuid) ==
  Bind(IF "n" \in DOMAIN otp THEN toString(otp.n) ELSE otp.s, LAMBDA _otp :
    Bind(NullishAssign(config, "serviceUrl", DefaultServiceUrl),
         LAMBDA _config :
      Bind(RemoveDashes(uuid), LAMBDA nonce :
        Bind(Assign(Assign(Assign(
                 Spread(<<>>, PropOrNone(_config, "signingParameters")),
                 KeyId, _config.clientId),
               KeyNonce, Str(nonce)),
             KeyOtp, Str(_otp)),
             LAMBDA params :
          Bind(construct_param_string(params), LAMBDA _params :
            Bind(generate_signature(_params, _config.apiKey),
                 LAMBDA signature :
              [otp |-> _otp, config |-> _config, nonce |-> nonce,
               params |-> params, message |-> _params,
               signature |-> signature,
               url |-> _config.serviceUrl \o <<"?">> \o _params
                         \o <<"&", "h", "=">> \o signature]))))))

\* the forEach of validate keeping the first value of a key
RECURSIVE ParseLinesFirstWins(_, _, _)
ParseLinesFirstWins(lines, i, result) ==
  IF i > Len(lines) THEN result
  ELSE IF Len(lines[i]) = 0 THEN ParseLinesFirstWins(lines, i + 1, result)
  ELSE Bind(lines[i], LAMBDA line :
         Bind(IndexOf(line, "="), LAMBDA index :
           Bind(IF Has(result, Trim(Substring(line, 0, index))) THEN result
                ELSE Assign(result, Trim(Substring(line, 0, index)),
                            Str(Trim(SubstringFrom(line, index + 1)))),
                LAMBDA r : ParseLinesFirstWins(lines, i + 1, r))))

\* the forEach of validate over the lines from the i-th on
RECURSIVE ParseLines(_, _, _)
ParseLines(lines, i, result) ==
  IF i > Len(lines) THEN result
  ELSE IF Len(lines[i]) = 0 THEN ParseLines(lines, i + 1, result)
  ELSE Bind(lines[i], LAMBDA line :
         Bind(IndexOf(line, "="), LAMBDA index :
           Bind(Assign(result, Trim(Substring(line, 0, index)),
                       Str(Trim(SubstringFrom(line, index + 1)))),
                LAMBDA r : ParseLines(lines, i + 1, r))))

\* the object validate builds from the text of a response
ParseBody(data) ==
  Bind(SplitCRLF(data, 1), LAMBDA lines : ParseLines(lines, 1, <<>>))

\* response.ok
ResponseOk(response) == response.status \in 200..299

\* validate without the test of response.ok
validateIgnoresStatus(url, response) ==
  [threw |-> FALSE, result |-> ParseBody(response.body), error |-> None]

\* YubiKeyOTP.validate on the response fetch resolved with: the parsed
\* object, or the Error thrown
validate(url, response) ==
  IF ~ResponseOk(response)
  THEN [threw |-> TRUE, result |-> None,
        error |-> [name |-> "Error",
                   message |-> response.url \o <<" ", "[">>
                                 \o toString(response.status)
                                 \o <<"]", ":", " ">>
                                 \o response.statusText]]
  ELSE [threw |-> FALSE, result |-> ParseBody(response.body),
        error |-> None]

\* verify with valid taken from the signature alone
verifyResultValidIgnoresStatus(otp, config, result) ==
  Bind(generate_signature(construct_param_string(result), config.apiKey),
       LAMBDA _signature :
    IF ~Has(result, KeyT)
    THEN [threw |-> TRUE, result |-> None,
          error |-> [name |-> "TypeError", message |-> None]]
    ELSE
      Bind(Assign(result, KeyT, [date |-> BeforeZ(Get(result, KeyT).s)]),
           LAMBDA r1 :
        Bind(IF Has(r1, KeySl) /\ Get(r1, KeySl).s # <<>>
             THEN Assign(r1, KeySl, ParseInt(Get(r1, KeySl).s))
             ELSE r1,
             LAMBDA r2 :
          Bind(Has(r2, KeyStatus) /\ Get(r2, KeyStatus) = Str(StatusOK),
               LAMBDA isOk :
            Bind(Has(r2, KeyH) /\ Get(r2, KeyH) = Str(_signature),
                 LAMBDA signatureValid :
              [threw |-> FALSE, error |-> None,
               result |->
                 Assign(Assign(Assign(Assign(r2,
                     KeyIsOk, Bool(isOk)),
                   KeyDeviceId, Str(Substring(otp, 0, 12))),
                  KeySignatureValid, Bool(signatureValid)),
                 KeyValid, Bool(signatureValid))])))))

\* verify with the response spread after the computed fields
verifyResultSpreadLast(otp, config, result) ==
  Bind(generate_signature(construct_param_string(result), config.apiKey),
       LAMBDA _signature :
    IF ~Has(result, KeyT)
    THEN [threw |-> TRUE, result |-> None,
          error |-> [name |-> "TypeError", message |-> None]]
    ELSE
      Bind(Assign(result, KeyT, [date |-> BeforeZ(Get(result, KeyT).s)]),
           LAMBDA r1 :
        Bind(IF Has(r1, KeySl) /\ Get(r1, KeySl).s # <<>>
             THEN Assign(r1, KeySl, ParseInt(Get(r1, KeySl).s))
             ELSE r1,
             LAMBDA r2 :
          Bind(Has(r2, KeyStatus) /\ Get(r2, KeyStatus) = Str(StatusOK),
               LAMBDA isOk :
            Bind(Has(r2, KeyH) /\ Get(r2, KeyH) = Str(_signature),
                 LAMBDA signatureValid :
              [threw |-> FALSE, error |-> None,
               result |->
                 Spread(<< <<KeyIsOk, Bool(isOk)>>,
                           <<KeyDeviceId, Str(Substring(otp, 0, 12))>>,
                           <<KeySignatureValid, Bool(signatureValid)>>,
                           <<KeyValid, Bool(isOk /\ signatureValid)>> >>,
                        r2)])))))

\* YubiKeyOTP.verify from the value validate resolved with: the result
\* returned, or the TypeError of undefined.split
verifyResult(otp, config, result) ==
  Bind(generate_signature(construct_param_string(result), config.apiKey),
       LAMBDA _signature :
    IF ~Has(result, KeyT)
    THEN [threw |-> TRUE, result |-> None,
          error |-> [name |-> "TypeError", message |-> None]]
    ELSE
      Bind(Assign(result, KeyT, [date |-> BeforeZ(Get(result, KeyT).s)]),
           LAMBDA r1 :
        Bind(IF Has(r1, KeySl) /\ Get(r1, KeySl).s # <<>>
             THEN Assign(r1, KeySl, ParseInt(Get(r1, KeySl).s))
             ELSE r1,
             LAMBDA r2 :
          Bind(Has(r2, KeyStatus) /\ Get(r2, KeyStatus) = Str(StatusOK),
               LAMBDA isOk :
            Bind(Has(r2, KeyH) /\ Get(r2, KeyH) = Str(_signature),
                 LAMBDA signatureValid :
              [threw |-> FALSE, error |-> None,
               result |->
                 Assign(Assign(Assign(Assign(r2,
                     KeyIsOk, Bool(isOk)),
                   KeyDeviceId, Str(Substring(otp, 0, 12))),
                  KeySignatureValid, Bool(signatureValid)),
                 KeyValid, Bool(isOk /\ signatureValid))])))))

(***************************************************************************)
(* The callers and the validation server of YubiKeyOTP.verify.             *)
(***************************************************************************)
MaxCalls == 2

\* the values v4() returns, call after call
Uuids ==
  <<<<"3", "f", "2", "a", "1", "b", "4", "c", "-", "5", "d", "6", "e", "-",
      "4", "f", "7", "0", "-", "8", "a", "9", "b", "-", "0", "c", "1", "d",
      "2", "e", "3", "f", "4", "a", "5", "b">>,
    <<"9", "b", "8", "c", "7", "d", "6", "e", "-", "5", "f", "4", "a", "-",
      "4", "b", "3", "c", "-", "9", "d", "2", "e", "-", "1", "f", "0", "a",
      "9", "b", "8", "c", "7", "d", "6", "e">>,
    <<"0", "a", "1", "b", "2", "c", "3", "d", "-", "4", "e", "5", "f", "-",
      "4", "a", "6", "b", "-", "8", "c", "7", "d", "-", "9", "e", "0", "f",
      "1", "a", "2", "b", "3", "c", "4", "d">>,
    <<"7", "e", "6", "d", "5", "c", "4", "b", "-", "3", "a", "2", "9", "-",
      "4", "1", "8", "0", "-", "b", "9", "a", "8", "-", "c", "7", "d", "6",
      "e", "5", "f", "4", "a", "3", "b", "2">>>>

\* the OTPs callers submit: a string, a number
Otps == {Str(<<"c", "c", "c", "c", "c", "c", "b", "t", "b", "v", "k", "w", "j", "j">>),
         [n |-> 123456]}

\* the configurations callers pass: one without a service URL and with
\* signing parameters (which hold a nonce of the caller's), one with a
\* service URL and without signing parameters
YubiConfigs ==
  {[clientId |-> Str(<<"1">>), apiKey |-> ApiKey,
    signingParameters |-> << <<KeyTimestamp, Str(<<"1">>)>>,
                             <<KeyNonce, Str(<<"a", "b", "c">>)>> >>],
   [clientId |-> Str(<<"1">>), apiKey |-> ApiKey,
    serviceUrl |-> <<"h", "t", "t", "p", "s", ":", "/", "/", "y", "k", ".",
                     "t", "e", "s", "t", "/", "v", "e", "r", "i", "f", "y">>]}

CRLF == <<"\r", "\n">>

\* the text of a response of the validation server: its lines, each ended
\* by CRLF, and an empty line
Body(lines) == Join(lines, CRLF) \o CRLF \o CRLF

ServerTime ==
  <<"2", "0", "2", "4", "-", "0", "1", "-", "0", "1", "T", "0", "0", ":",
    "0", "0", ":", "0", "0", "Z", "0", "1", "2", "3">>

\* the lines the server answers a request for otp and nonce with
ServerLines(otp, nonce, status) ==
  << KeyT \o <<"=">> \o ServerTime,
     KeyOtp \o <<"=">> \o otp,
     KeyNonce \o <<"=">> \o nonce,
     KeySl \o <<"=", "2", "5">>,
     KeyStatus \o <<"=">> \o status >>

\* the signature the server computes over lines with the client's key
ServerSignature(lines) ==
  generate_signature(construct_param_string(ParseBody(Body(lines))), ApiKey)

HLine(signature) == KeyH \o <<"=">> \o signature

\* a response signed by the server
SignedBody(lines) == Body(<<HLine(ServerSignature(lines))>> \o lines)

\* the signed response with status OK to a request
BodyOk(otp, nonce) == SignedBody(ServerLines(otp, nonce, StatusOK))

\* the signed response with status REPLAYED_OTP to a request
BodyRejected(otp, nonce) ==
  SignedBody(ServerLines(otp, nonce, StatusReplayedOtp))

\* a forged response: the rejection, its status rewritten to OK
BodyForged(otp, nonce) ==
  Body(<<HLine(ServerSignature(ServerLines(otp, nonce, StatusReplayedOtp)))>>
       \o ServerLines(otp, nonce, StatusOK))

\* a response under the h of the rejection of the request that echoes the
\* OTP of another device in a rejection, with lines after it that carry
\* the keys of the fields verify computes
BodyInjected(otp, nonce) ==
  Body(<<HLine(ServerSignature(ServerLines(otp, nonce, StatusReplayedOtp)))>>
       \o ServerLines(<<"v", "v", "v", "v", "v", "v", "v", "v", "v", "v",
                        "v", "v", "k", "w", "j", "j">>,
                      nonce, StatusReplayedOtp)
       \o << KeyIsOk \o <<"=", "t", "r", "u", "e">>,
             KeyDeviceId \o <<"=", "v", "v", "v", "v", "v", "v", "v", "v",
                              "v", "v", "v", "v">>,
             KeySignatureValid \o <<"=", "t", "r", "u", "e">>,
             KeyValid \o <<"=", "t", "r", "u", "e">> >>)

\* the number of characters of the h line a response cut in it keeps
CutInH == 10

\* the OK response cut inside its h line, inside its otp line
BodyCutInH(otp, nonce) == SubSeq(BodyOk(otp, nonce), 1, CutInH)

BodyCutInOtp(otp, nonce) ==
  Bind(ServerLines(otp, nonce, StatusOK), LAMBDA lines :
    SubSeq(BodyOk(otp, nonce), 1,
           Len(HLine(ServerSignature(lines))) + 2 + Len(lines[1]) + 2 + 7))

\* the bodies a request for otp and nonce can be answered with
ServerBodies(otp, nonce) ==
  {BodyOk(otp, nonce), BodyRejected(otp, nonce), BodyForged(otp, nonce),
   BodyCutInH(otp, nonce), BodyCutInOtp(otp, nonce),
   BodyInjected(otp, nonce)}

\* the HTTP statuses of the server other than 200
HttpErrors ==
  {[status |-> 404, statusText |-> <<"N", "o", "t", " ", "F", "o", "u", "n", "d">>],
   [status |-> 503,
    statusText |-> <<"S", "e", "r", "v", "i", "c", "e", " ", "U", "n", "a",
                    "v", "a", "i", "l", "a", "b", "l", "e">>]}

\* the responses fetch can resolve the request of call i with: status 200
\* and a body of the server for this request, status 200 and the OK body
\* the server signed for another request already sent, or an HTTP error
Responses(i) ==
  LET request == yubi.calls[i].request
      others == {j \in 1..MaxCalls :
                   j # i /\ yubi.calls[j].pc # "idle"}
  IN  {[url |-> request.url, status |-> 200, statusText |-> StatusOK,
        body |-> b] :
         b \in ServerBodies(request.otp, request.nonce)
               \cup {BodyOk(yubi.calls[j].request.otp,
                            yubi.calls[j].request.nonce) : j \in others}}
      \cup {[url |-> request.url, status |-> e.status,
             statusText |-> e.statusText, body |-> <<>>] : e \in HttpErrors}

InitYubi ==
  /\ rev = "current"
  /\ cfg \in YubiConfigs
  /\ now = 0
  /\ gen = None
  /\ call = None
  /\ ver = None
  /\ yubi = [calls |-> [i \in 1..MaxCalls |-> [pc |-> "idle"]],
             requests |-> <<>>, drawn |-> 0]

\* YubiKeyOTP.verify from its call to the await of fetch: the i-th call
\* draws the i-th value of v4() and sends its request
YubiRequest(i) ==
  /\ i = yubi.drawn + 1
  /\ yubi.calls[i].pc = "idle"
  /\ \E otp \in Otps :
       \E r \in {verifyRequest(otp, cfg, Uuids[yubi.drawn + 1])} :
         /\ cfg' = r.config
         /\ yubi' = [calls |-> [yubi.calls EXCEPT ![i] =
                                  [pc |-> "awaiting", otp |-> otp,
                                   arg |-> cfg, request |-> r]],
                     requests |-> Append(yubi.requests,
                                         [call |-> i, method |-> "GET",
                                          url |-> r.url]),
                     drawn |-> yubi.drawn + 1]
  /\ UNCHANGED <<rev, now, gen, call, ver>>

\* YubiKeyOTP.verify from the response of fetch to its end: validate
\* throws or parses the body, verify throws or returns the result
YubiRespond(i) ==
  /\ yubi.calls[i].pc = "awaiting"
  /\ \E response \in Responses(i) :
       \E v \in {validate(yubi.calls[i].request.url, response)} :
         \E r \in {IF v.threw THEN v
                   ELSE verifyResult(yubi.calls[i].request.otp, cfg,
                                     v.result)} :
           yubi' = [yubi EXCEPT !.calls[i] =
                      [pc |-> IF r.threw THEN "threw" ELSE "returned",
                       otp |-> yubi.calls[i].otp,
                       arg |-> yubi.calls[i].arg,
                       request |-> yubi.calls[i].request,
                       response |-> response,
                       parsed |-> v.result,
                       result |-> r.result,
                       error |-> r.error]]
  /\ UNCHANGED <<rev, cfg, now, gen, call, ver>>

NextYubi == \E i \in 1..MaxCalls : YubiRequest(i) \/ YubiRespond(i)

SpecYubi == InitYubi /\ [][NextYubi]_vars

(***************************************************************************)
(* The parser of validate on texts of its own: lines with white space      *)
(* around keys and values, values holding "=", keys the client does not    *)
(* know, keys given twice, empty lines.                                    *)
(***************************************************************************)
\* the lines of the texts, each with the key and the value it is written
\* to carry (None for the empty line)
ParseLinePool ==
  {[text |-> <<"h", "=", "A", "b", "C", "=">>,
    key |-> <<"h">>, value |-> <<"A", "b", "C", "=">>],
   [text |-> <<"s", "t", "a", "t", "u", "s", "=", "O", "K">>,
    key |-> <<"s", "t", "a", "t", "u", "s">>, value |-> <<"O", "K">>],
   [text |-> <<" ", "s", "t", "a", "t", "u", "s", " ", "=", " ", "R", "E",
             "P", "L", "A", "Y", "E", "D", "_", "O", "T", "P", " ">>,
    key |-> <<"s", "t", "a", "t", "u", "s">>, value |-> <<"R", "E", "P", "L", "A", "Y", "E", "D", "_", "O", "T", "P">>],
   [text |-> <<"x", "-", "e", "x", "t", "r", "a", "=", "1", "=", "2">>,
    key |-> <<"x", "-", "e", "x", "t", "r", "a">>, value |-> <<"1", "=", "2">>],
   [text |-> <<>>, key |-> None, value |-> None],
   [text |-> <<"t", "=", " ", "2", "0", "2", "4", "Z">>,
    key |-> <<"t">>, value |-> <<"2", "0", "2", "4", "Z">>]}

\* the longest text, in lines
MaxLines == 4

\* the texts: up to MaxLines lines of the pool
ParseTexts == UNION {[1..n -> ParseLinePool] : n \in 0..MaxLines}

InitParse ==
  /\ rev = "current"
  /\ cfg = <<>>
  /\ now = 0
  /\ gen = None
  /\ call = None
  /\ ver = None
  /\ yubi \in {[lines |-> t, parsed |-> FALSE, result |-> None] :
                 t \in ParseTexts}

\* the text of a response: its lines, each ended by CRLF, and an empty line
ParseData(lines) ==
  Body([k \in 1..Len(lines) |-> lines[k].text])

\* validate from response.text() on
Parse ==
  /\ ~yubi.parsed
  /\ yubi' = [yubi EXCEPT !.parsed = TRUE,
                          !.result = ParseBody(ParseData(yubi.lines))]
  /\ call' = [op |-> "validate", arg |-> ParseData(yubi.lines),
              otp |-> None, threw |-> FALSE, at |-> now]
  /\ UNCHANGED <<rev, cfg, now, gen, ver>>

NextParse == Parse

SpecParse == InitParse /\ [][NextParse]_vars

(***************************************************************************)
(* Base32 (RFC 4648, the alphabet A-Z 2-7), as Secret uses it: encode       *)
(* with or without padding, decode of a text of the alphabet.              *)
(***************************************************************************)
Base32Alphabet ==
  <<"A", "B", "C", "D", "E", "F", "G", "H", "I", "J", "K", "L", "M", "N",
    "O", "P", "Q", "R", "S", "T", "U", "V", "W", "X", "Y", "Z", "2", "3",
    "4", "5", "6", "7">>

\* the i-th bit (from 1) of a sequence of w-bit numbers; 0 past its end
BitOf(seq, w, i) ==
  IF i > w * Len(seq) THEN 0
  ELSE (seq[((i - 1) \div w) + 1] \div (2 ^ (w - 1 - ((i - 1) % w)))) % 2

\* the number written by the n bits from the i-th on
RECURSIVE BitsValue(_, _, _, _)
BitsValue(seq, w, i, n) ==
  IF n = 0 THEN 0
  ELSE 2 * BitsValue(seq, w, i, n - 1) + BitOf(seq, w, i + n - 1)

\* Base32.encode(buffer, padding)
Base32Encode(buffer, padding) ==
  Bind((8 * Len(buffer) + 4) \div 5, LAMBDA n :
    [k \in 1..n |-> Base32Alphabet[BitsValue(buffer, 8, 5 * k - 4, 5) + 1]]
    \o (IF padding THEN [k \in 1..((8 - (n % 8)) % 8) |-> "="] ELSE <<>>))

\* the 5-bit value of a character of the alphabet
Base32Value(c) == (CHOOSE k \in 1..32 : Base32Alphabet[k] = c) - 1

\* the texts Base32.decode is modelled on
Base32Text(text) ==
  \A k \in 1..Len(text) : \E a \in 1..32 : Base32Alphabet[a] = text[k]

\* Base32.decode(text): the whole bytes the 5-bit values of text hold
Base32Decode(text) ==
  Bind([k \in 1..Len(text) |-> Base32Value(text[k])], LAMBDA values :
    [j \in 1..((5 * Len(text)) \div 8) |->
       BitsValue(values, 5, 8 * j - 7, 8)])

(***************************************************************************)
(* Secret: its constructor and toString.                                   *)
(***************************************************************************)
HexDigit ==
  <<"0", "1", "2", "3", "4", "5", "6", "7", "8", "9", "a", "b", "c", "d",
    "e", "f">>

\* the bytes Buffer.prototype.toString('utf8') is modelled on: the codes
\* below 128 of the characters of the model
Ascii(buffer) ==
  \A i \in 1..Len(buffer) :
    buffer[i] < 128 /\ \E c \in DOMAIN CharCode : CharCode[c] = buffer[i]

\* Buffer.prototype.toString(encoding) for the encodings hex and utf8
BufferToString(buffer, encoding) ==
  IF encoding = "hex"
  THEN [i \in 1..(2 * Len(buffer)) |->
          HexDigit[(IF i % 2 = 1 THEN buffer[(i + 1) \div 2] \div 16
                    ELSE buffer[i \div 2] % 16) + 1]]
  ELSE [i \in 1..Len(buffer) |->
          CHOOSE c \in DOMAIN CharCode : CharCode[c] = buffer[i]]

\* randomBytes(size): draw names one of the values it can return
randomBytes(size, draw) == [i \in 1..size |-> (37 * i + 101 * draw) % 256]

\* a value is a string: [s |-> its characters]
IsString(v) == "s" \in DOMAIN v

\* a value is a Buffer: [buffer |-> its bytes]
IsBuffer(v) == "buffer" \in DOMAIN v

\* new Secret(configOrSeed): the Secret built and the options object as
\* the constructor leaves it
NewSecret(configOrSeed, draw) ==
  Bind(IF IsString(configOrSeed) THEN [secret |-> configOrSeed]
       ELSE configOrSeed, LAMBDA given :
    Bind(OrAssign(OrAssign(given, "size", 0, 20),
                  "secretEncoding", "", "base32"), LAMBDA _config :
      [config |-> _config,
       buffer |->
         IF "secret" \in DOMAIN _config /\ IsBuffer(_config.secret)
         THEN _config.secret.buffer
         ELSE IF "secret" \in DOMAIN _config /\ _config.secret.s # <<>>
         THEN Base32Decode(_config.secret.s)
         ELSE randomBytes(_config.size, draw)]))

\* Secret.toString(encoding)
SecretToString(secret, encoding) ==
  IF encoding = "base32" THEN Base32Encode(secret.buffer, FALSE)
  ELSE BufferToString(secret.buffer, encoding)

\* the seeds given as Buffers: none, one and three bytes, ASCII texts, bytes
\* whose hex digits are characters of the Base32 alphabet, twenty bytes
SecretBuffers ==
  {<<>>, <<255>>, <<0, 255, 16>>, <<34, 51>>, <<39, 114, 85>>, <<65, 66>>,
   <<77, 90, 88, 87, 54>>, <<102, 111, 111, 98>>, <<1, 2, 3, 4>>,
   <<102, 111, 111, 98, 97, 114>>, Secrets[1]}

\* what callers pass to new Secret: nothing, a size, a Buffer, a Base32 text
SecretInputs ==
  {<<>>, [size |-> 2], [size |-> 0],
   Str(<<"M", "Z", "X", "W", "6", "Y", "Q">>)}
  \cup {[secret |-> [buffer |-> b]] : b \in SecretBuffers}

SecretEncodings == {"base32", "hex", "utf8"}

\* the values randomBytes can return, by name
SecretDraws == {1, 2}

\* how a text is given back to new Secret: as a bare string, as {secret},
\* as {secret, secretEncoding}
SecretForms == {"seed", "options", "encoded"}

InitSecret ==
  /\ rev = "current"
  /\ cfg = <<>>
  /\ now = 0
  /\ gen = None
  /\ call = None
  /\ ver = None
  /\ yubi = None

\* s = new Secret(input)
SecretConstruct ==
  /\ gen = None
  /\ \E input \in SecretInputs : \E draw \in SecretDraws :
       \E r \in {NewSecret(input, draw)} :
         /\ gen' = [pc |-> "built", s |-> Secret(r.buffer), text |-> None,
                    encoding |-> "", form |-> "", copy |-> None]
         /\ cfg' = r.config
         /\ call' = [op |-> "Secret", arg |-> input, otp |-> None,
                     threw |-> FALSE, at |-> now]
  /\ UNCHANGED <<rev, now, ver, yubi>>

\* text = s.toString(encoding)
SecretDump ==
  /\ gen # None
  /\ gen.pc = "built"
  /\ \E encoding \in SecretEncodings :
       /\ encoding = "utf8" => Ascii(gen.s.buffer)
       /\ gen' = [gen EXCEPT !.pc = "dumped",
                             !.text = SecretToString(gen.s, encoding),
                             !.encoding = encoding]
  /\ call' = [op |-> "Secret.toString", arg |-> gen.s, otp |-> None,
              threw |-> FALSE, at |-> now]
  /\ UNCHANGED <<rev, cfg, now, ver, yubi>>

\* copy = new Secret(text), new Secret({secret: text}) or
\* new Secret({secret: text, secretEncoding: encoding})
SecretReload ==
  /\ gen # None
  /\ gen.pc = "dumped"
  /\ Base32Text(gen.text)
  /\ \E form \in SecretForms : \E draw \in SecretDraws :
       /\ form # "encoded" => gen.encoding = "base32"
       /\ \E input \in {IF form = "seed" THEN Str(gen.text)
                        ELSE IF form = "options"
                        THEN [secret |-> Str(gen.text)]
                        ELSE [secret |-> Str(gen.text),
                              secretEncoding |-> gen.encoding]} :
            \E r \in {NewSecret(input, draw)} :
              /\ gen' = [gen EXCEPT !.pc = "reloaded", !.form = form,
                                    !.copy = Secret(r.buffer)]
              /\ cfg' = r.config
              /\ call' = [op |-> "Secret", arg |-> input, otp |-> None,
                          threw |-> FALSE, at |-> now]
  /\ UNCHANGED <<rev, now, ver, yubi>>

NextSecret == SecretConstruct \/ SecretDump \/ SecretReload

SpecSecret == InitSecret /\ [][NextSecret]_vars

(***************************************************************************)
(* Properties.                                                             *)
(***************************************************************************)
\* the property k of the object o, or d when o has none
Prop(o, k, d) == IF k \in DOMAIN o THEN o[k] ELSE d

\* the token the revision generates for the last generated token's secret,
\* digits and algorithm at counter c
TokenAt(c) ==
  LET conf == [secret |-> gen.secret, counter |-> c, digits |-> gen.digits,
               algorithm |-> gen.algorithm]
  IN  IF rev = "legacy" THEN generateLegacy(conf, Secrets[1]).token
      ELSE generate(conf, Secrets[1]).token

\* the last call is op, verifying the token last generated with the secret,
\* digits and algorithm it was generated with
VerifiesGenerated(op) ==
  /\ call # None
  /\ call.op = op
  /\ gen # None
  /\ "s" \in DOMAIN call.otp
  /\ call.otp.s = gen.token
  /\ call.arg.secret = gen.secret
  /\ Prop(call.arg, "digits", 6) = gen.digits
  /\ Prop(call.arg, "algorithm", "sha1") = gen.algorithm

\* the window the code scans with when the caller configured w: the legacy
\* revision replaces 0 by the default 1
ScanWindow(w) == IF rev = "legacy" /\ w = 0 THEN 1 ELSE w

\* the counters verify scans around counter c with the configured window w
ScannedCounters(c, w) ==
  {i \in (c - ScanWindow(w))..(c + ScanWindow(w)) : i >= 0}

\* the token last generated is also the token of a counter in S
Collides(S) == \E i \in S : TokenAt(i) = gen.token

C1_Case ==
  /\ VerifiesGenerated("HOTP.verify")
  /\ "window" \notin DOMAIN call.arg
  /\ Prop(call.arg, "counter", 0) = gen.counter

\* C1 as stated: verifying a token with the secret and counter it was
\* generated with (default window) returns matched = true and delta = 0.
C1_Original == C1_Case => (ver.matched /\ ver.delta = <<0>>)

\* C1, amended: verifying a token with the secret and counter C it was
\* generated with (default window) returns matched = true, and delta = 0
\* unless the token of counter C-1 or C+1 equals it; delta is then the offset
\* of a counter of the window whose token equals the candidate.
C1_Amended ==
  C1_Case =>
    /\ ver.matched
    /\ ~ver.threw
    /\ ver.delta \in {<<-1>>, <<0>>, <<1>>}
    /\ gen.counter + ver.delta[1] >= 0
    /\ TokenAt(gen.counter + ver.delta[1]) = gen.token
    /\ (~Collides(ScannedCounters(gen.counter, 1) \ {gen.counter})
          => ver.delta = <<0>>)

C1_Witness == C1_Case /\ gen.counter > 0 /\ ver.delta = <<0>>

C2_Case ==
  /\ VerifiesGenerated("HOTP.verify")
  /\ Prop(call.arg, "window", 1) >= 0
  /\ gen.counter - Prop(call.arg, "counter", 0)
       \in 0..Prop(call.arg, "window", 1)

C3_Case ==
  /\ VerifiesGenerated("HOTP.verify")
  /\ Prop(call.arg, "window", 1) >= 0
  /\ gen.counter \notin
       (Prop(call.arg, "counter", 0) - Prop(call.arg, "window", 1))
         ..(Prop(call.arg, "counter", 0) + Prop(call.arg, "window", 1))

DT31(d) ==
  LET o == d[Len(d)] % 16
  IN  (d[o + 1] % 128) * 16777216 + d[o + 2] * 65536 + d[o + 3] * 256
      + d[o + 4]

C4_Case ==
  /\ call # None
  /\ call.op = "HOTP.generate"
  /\ gen.digits \in {6, 8}

\* C4: generate returns a string of exactly digits (6 or 8) characters, each
\* a decimal digit, left-padded with "0", whose value is the truncated
\* 31-bit integer modulo 10^digits.
C4_TokenFormat ==
  C4_Case =>
    /\ Len(gen.token) = gen.digits
    /\ \A i \in 1..Len(gen.token) : \E d \in 1..10 : gen.token[i] = DigitChar[d]
    /\ \E be \in BOOLEAN :
         LET v == DT31(digest(gen.algorithm, gen.secret.buffer,
                              uint64_t(gen.counter, be)))
         IN  /\ v \in 0..2147483647
             /\ Number(gen.token) = v % Pow10(gen.digits)

C4_Witness ==
  /\ C4_Case
  /\ gen.digits = 8
  /\ gen.algorithm = "sha512"
  /\ Head(gen.token) = "0"

C5_Case ==
  /\ call # None
  /\ call.op = "HOTP.verify"
  /\ Len(Normalize(call.otp, cfg.digits)) # cfg.digits

\* C5: when the candidate, a numeric one zero-padded to digits, has a length
\* other than digits, verify returns (false, null) at once: no counter is
\* scanned and no digest computed.
C5_LengthMismatch ==
  C5_Case =>
    /\ ~ver.matched
    /\ ver.delta = None
    /\ ver.scanned = <<>>
    /\ ~ver.threw

C5_Witness ==
  /\ C5_Case
  /\ "n" \in DOMAIN call.otp
  /\ ver.scanned = <<>>

\* the time, in milliseconds, a TOTP call with the configuration arg derives
\* its counter from
ArgTime(arg) ==
  IF "timestamp" \notin DOMAIN arg THEN call.at
  ELSE IF "n" \in DOMAIN arg.timestamp THEN arg.timestamp.n * 1000
  ELSE arg.timestamp.ms

C6_Case ==
  /\ call # None
  /\ call.op = "TOTP.generate"
  /\ "period" \in DOMAIN call.arg

\* C6: the TOTP token generated for timestamp T and period P is the HOTP
\* token of counter floor(T/P) for the same secret, digits and algorithm,
\* whatever counter the caller's configuration held.
C6_TimeDerived ==
  C6_Case =>
    LET c == (ArgTime(call.arg) \div 1000) \div call.arg.period
    IN  /\ gen.counter = c
        /\ gen.secret = call.arg.secret
        /\ gen.token = TokenAt(c)

C6_Witness ==
  /\ C6_Case
  /\ "counter" \in DOMAIN call.arg
  /\ "timestamp" \in DOMAIN call.arg
  /\ "n" \in DOMAIN call.arg.timestamp
  /\ call.arg.counter # gen.counter

\* C7 as stated: without a period from the caller, TOTP.generate and
\* TOTP.verify use a period of 30 seconds and the counter floor(T/30).
C7_Original ==
  (/\ call # None
   /\ call.op \in {"TOTP.generate", "TOTP.verify"}
   /\ "period" \notin DOMAIN call.arg)
    => (/\ cfg.period = 30
        /\ cfg.counter = (ArgTime(call.arg) \div 1000) \div 30)

C8_Case ==
  /\ VerifiesGenerated("TOTP.verify")
  /\ gen.period > 0
  /\ cfg.period = gen.period
  /\ cfg.counter - gen.counter > Prop(call.arg, "window", 1)

C9_Original ==
  (/\ call # None
   /\ \/ Prop(call.arg, "digits", 6) \notin {6, 8}
      \/ Prop(call.arg, "window", 1) < 0)
    => call.threw

C10_Case ==
  /\ call # None
  /\ call.op = "construct_param_string"

\* the keys of the parameters other than h
C10_Keys == {yubi.params[i][1] : i \in 1..Len(yubi.params)} \ {KeyH}

\* C10: construct_param_string returns the key=value pairs of all keys but
\* h, in the lexicographic order of the keys, joined with "&", whatever the
\* insertion order; {id: 1, nonce: abc, otp: ccccccb} gives
\* id=1&nonce=abc&otp=ccccccb.
C10_Canonical ==
  C10_Case =>
    /\ \E o \in Orders(C10_Keys) :
         /\ \A i \in 1..(Len(o) - 1) : StringLess(o[i], o[i + 1])
         /\ yubi.string
              = Join([i \in 1..Len(o) |->
                        o[i] \o <<"=">> \o Template(Get(yubi.params, o[i]))],
                     <<"&">>)
    /\ (C10_Keys = {KeyId, KeyNonce, KeyOtp}
          => yubi.string
               = <<"i", "d", "=", "1", "&", "n", "o", "n", "c", "e", "=",
                   "a", "b", "c", "&", "o", "t", "p", "=", "c", "c", "c",
                   "c", "c", "c", "b">>)

C10_Witness ==
  /\ C10_Case
  /\ yubi.params[1][1] = KeyOtp
  /\ yubi.params[2][1] = KeyH
  /\ C10_Keys = {KeyId, KeyNonce, KeyOtp}

\* the calls of YubiKeyOTP.verify that were made, that got their response
YubiCalled == {i \in 1..MaxCalls : yubi.calls[i].pc # "idle"}

YubiAnswered == {i \in 1..MaxCalls : yubi.calls[i].pc \in {"returned", "threw"}}

\* the signature recomputed over the keys other than h of a parsed response
Recomputed(parsed) ==
  generate_signature(construct_param_string(parsed), ApiKey)

\* the h of a parsed response equals the recomputed signature
SignatureMatches(parsed) ==
  Has(parsed, KeyH) /\ Get(parsed, KeyH).s = Recomputed(parsed)

C11_Case(i) == yubi.calls[i].pc = "returned"

\* C11: in every result YubiKeyOTP.verify returns, isOk is true exactly when
\* the status of the response is OK, signatureValid is true exactly when
\* the h of the response equals the signature recomputed over its other
\* keys, and valid is the conjunction of the two.
C11_Flags ==
  \A i \in 1..MaxCalls :
    C11_Case(i) =>
      LET parsed == yubi.calls[i].parsed
          result == yubi.calls[i].result
      IN  /\ Get(result, KeyIsOk).b
               = (Has(parsed, KeyStatus)
                  /\ Get(parsed, KeyStatus).s = StatusOK)
          /\ Get(result, KeySignatureValid).b = SignatureMatches(parsed)
          /\ Get(result, KeyValid).b
               = (Get(result, KeyIsOk).b /\ Get(result, KeySignatureValid).b)

\* a correctly signed response with status REPLAYED_OTP was returned with
\* signatureValid true and valid false
C11_Witness ==
  \E i \in 1..MaxCalls :
    /\ C11_Case(i)
    /\ yubi.calls[i].response.body
         = BodyRejected(yubi.calls[i].request.otp, yubi.calls[i].request.nonce)
    /\ Get(yubi.calls[i].result, KeySignatureValid).b
    /\ ~Get(yubi.calls[i].result, KeyIsOk).b
    /\ ~Get(yubi.calls[i].result, KeyValid).b

C12_Case(i) ==
  /\ i \in YubiAnswered
  /\ ResponseOk(yubi.calls[i].response)
  /\ ~SignatureMatches(ParseBody(yubi.calls[i].response.body))

\* C12: for every body received with a success HTTP status whose h is not
\* the recomputed signature, YubiKeyOTP.verify returns a result with
\* signatureValid false and valid false, and throws nothing.
C12_Original ==
  \A i \in 1..MaxCalls :
    C12_Case(i) =>
      /\ yubi.calls[i].pc = "returned"
      /\ ~Get(yubi.calls[i].result, KeySignatureValid).b
      /\ ~Get(yubi.calls[i].result, KeyValid).b

\* part occurs in message
C13_Carries(message, part) ==
  \E k \in 0..(Len(message) - Len(part)) :
    SubSeq(message, k + 1, k + Len(part)) = part

\* the requests call i has sent
C13_Requests(i) ==
  {k \in 1..Len(yubi.requests) : yubi.requests[k].call = i}

C13_Case(i) == i \in YubiAnswered /\ ~ResponseOk(yubi.calls[i].response)

\* C13: every call of YubiKeyOTP.verify sends exactly one GET request; when
\* the response has a non-success status the call throws an Error whose
\* message carries the URL, the status code and the status text, there is
\* no result, and no second request.
C13_OneRequest ==
  \A i \in 1..MaxCalls :
    /\ i \in YubiCalled =>
         /\ Cardinality(C13_Requests(i)) = 1
         /\ \A k \in C13_Requests(i) :
              /\ yubi.requests[k].method = "GET"
              /\ yubi.requests[k].url = yubi.calls[i].request.url
    /\ i \notin YubiCalled => C13_Requests(i) = {}
    /\ C13_Case(i) =>
         /\ yubi.calls[i].pc = "threw"
         /\ yubi.calls[i].result = None
         /\ yubi.calls[i].error.name = "Error"
         /\ C13_Carries(yubi.calls[i].error.message,
                        yubi.calls[i].request.url)
         /\ C13_Carries(yubi.calls[i].error.message,
                        toString(yubi.calls[i].response.status))
         /\ C13_Carries(yubi.calls[i].error.message,
                        yubi.calls[i].response.statusText)

\* a call answered with status 503 has thrown, while every call has sent
\* its one request
C13_Witness ==
  /\ Len(yubi.requests) = MaxCalls
  /\ \E i \in 1..MaxCalls :
       /\ C13_Case(i)
       /\ yubi.calls[i].response.status = 503
       /\ yubi.calls[i].pc = "threw"

C14_AlphaNumeric ==
  {"0", "1", "2", "3", "4", "5", "6", "7", "8", "9", "a", "b", "c", "d",
   "e", "f", "g", "h", "i", "j", "k", "l", "m", "n", "o", "p", "q", "r",
   "s", "t", "u", "v", "w", "x", "y", "z"}

\* the text nonce=<value> of a canonical string
C14_NonceParam(nonce) == KeyNonce \o <<"=">> \o nonce

\* the number of parameters named nonce of a canonical string
C14_NonceParams(message) ==
  Cardinality({k \in 0..(Len(message) - 6) :
                 /\ SubSeq(message, k + 1, k + 6) = KeyNonce \o <<"=">>
                 /\ (k = 0 \/ message[k] = "&")})

C14_Case(i) == i \in YubiCalled

\* C14: every call of YubiKeyOTP.verify has a nonce of its own, free of
\* dashes and alphanumeric; this nonce is the one of the signed canonical
\* string and of the URL of the request; no two requests carry the same
\* nonce, whatever the interleaving of the calls that share the
\* configuration.
C14_FreshNonce ==
  \A i \in 1..MaxCalls :
    C14_Case(i) =>
      LET request == yubi.calls[i].request
      IN  /\ request.nonce # <<>>
          /\ \A k \in 1..Len(request.nonce) :
               request.nonce[k] \in C14_AlphaNumeric
          /\ C14_NonceParams(request.message) = 1
          /\ C13_Carries(request.message, C14_NonceParam(request.nonce))
          /\ request.signature
               = generate_signature(request.message, ApiKey)
          /\ C13_Carries(request.url,
                         <<"?">> \o request.message \o <<"&", "h", "=">>)
          /\ \A j \in YubiCalled \ {i} :
               ~C13_Carries(yubi.calls[j].request.url,
                            C14_NonceParam(request.nonce))

\* two calls that share a configuration whose signing parameters hold a
\* nonce are both waiting for their response
C14_Witness ==
  /\ "signingParameters" \in DOMAIN cfg
  /\ Has(cfg.signingParameters, KeyNonce)
  /\ \E i, j \in 1..MaxCalls :
       /\ i # j
       /\ yubi.calls[i].pc = "awaiting"
       /\ yubi.calls[j].pc = "awaiting"
       /\ Get(cfg.signingParameters, KeyNonce).s
            \notin {yubi.calls[i].request.nonce, yubi.calls[j].request.nonce}

C15_Case ==
  /\ gen # None
  /\ gen.pc = "reloaded"
  /\ gen.encoding = "base32"
  /\ gen.form \in {"seed", "options"}

\* C15: for every Secret s, the Secret built from the Base32 text
\* s.toString(), given as a bare string or as {secret: text}, has the bytes
\* of s and the same text; the text holds no padding character.
C15_Original ==
  C15_Case =>
    /\ gen.copy.buffer = gen.s.buffer
    /\ SecretToString(gen.copy, "base32") = gen.text
    /\ \A k \in 1..Len(gen.text) : gen.text[k] # "="

\* a text that is not empty was given with its encoding
C16_Case ==
  /\ gen # None
  /\ gen.pc = "reloaded"
  /\ gen.form = "encoded"
  /\ gen.text # <<>>

\* C16: a Secret built from a string seed and a secretEncoding decodes the
\* seed with that encoding: new Secret({secret: s.toString(e),
\* secretEncoding: e}) has the bytes of s, for every supported encoding e.
C16_Original == C16_Case => gen.copy.buffer = gen.s.buffer

\* the counters of the window of the last verify (the window of the merged
\* configuration) whose token is the token last generated
C17_Matching ==
  {i \in (ver.config.counter - ver.config.window)
           ..(ver.config.counter + ver.config.window) :
     i >= 0 /\ TokenAt(i) = gen.token}

\* the smallest of them
C17_First == CHOOSE i \in C17_Matching : \A j \in C17_Matching : i <= j

C17_Case ==
  /\ VerifiesGenerated("HOTP.verify")
  /\ ~ver.threw
  /\ ver.matched

\* C17: HOTP.verify scans the counters in increasing order from
\* counter - window and stops at the first counter whose token equals the
\* candidate: the delta returned is that of the smallest matching counter
\* and no counter after it is evaluated.
C17_Original ==
  C17_Case =>
    /\ \A k \in 1..(Len(ver.scanned) - 1) :
         ver.scanned[k + 1] = ver.scanned[k] + 1
    /\ ver.scanned[1]
         = (IF ver.config.counter - ver.config.window < 0 THEN 0
            ELSE ver.config.counter - ver.config.window)
    /\ ver.delta = <<C17_First - ver.config.counter>>
    /\ ver.scanned[Len(ver.scanned)] = C17_First

\* the last call is a HOTP.verify that scanned: the candidate has the
\* length the configuration asks for, and no comparison threw
C18_Case ==
  /\ call # None
  /\ call.op = "HOTP.verify"
  /\ ~ver.threw
  /\ Len(Normalize(call.otp, Prop(call.arg, "digits", 6)))
       = Prop(call.arg, "digits", 6)

\* C18: HOTP.verify computes no token for a negative counter; when
\* counter < window the scan runs over the counters 0 .. counter + window
\* (all of them unless a match ends it); a returned delta d has
\* counter + d >= 0 and -window <= d <= window, for the counter and the
\* window the caller configured.
C18_Original ==
  C18_Case =>
    LET counter == Prop(call.arg, "counter", 0)
        window == Prop(call.arg, "window", 1)
    IN  /\ \A k \in 1..Len(ver.scanned) : ver.scanned[k] >= 0
        /\ counter < window =>
             /\ \A k \in 1..Len(ver.scanned) : ver.scanned[k] = k - 1
             /\ Len(ver.scanned) <= counter + window + 1
             /\ ~ver.matched => Len(ver.scanned) = counter + window + 1
        /\ ver.matched =>
             /\ counter + ver.delta[1] >= 0
             /\ -window <= ver.delta[1]
             /\ ver.delta[1] <= window

\* the last call is a HOTP.verify of a candidate string of the configured
\* length
C19_Case ==
  /\ call # None
  /\ call.op = "HOTP.verify"
  /\ "s" \in DOMAIN call.otp
  /\ Len(call.otp.s) = Prop(call.arg, "digits", 6)

\* C19: verify throws nothing because of the content of the candidate: for
\* every candidate string of the configured length, also one with
\* characters that are no digits or not ASCII, it returns a pair
\* (matched, delta), and (false, null) when the candidate is the token of
\* no counter of the window.
C19_Original ==
  C19_Case =>
    /\ ~call.threw
    /\ ver.matched = (ver.delta # None)
    /\ (\E k \in 1..Len(call.otp.s) :
          \A d \in 1..10 : DigitChar[d] # call.otp.s[k])
         => (~ver.matched /\ ver.delta = None)

\* the fields of a configuration object
C20_Fields ==
  {"issuer", "label", "algorithm", "digits", "counter", "window", "secret",
   "period", "timestamp", "serviceUrl"}

C20_Case ==
  /\ call # None
  /\ call.op \in {"HOTP.generate", "HOTP.verify"}

\* C20: generate and verify leave the configuration object the caller
\* passed unchanged: after the call every field has the value, or the
\* absence, it had before the call.
C20_Original ==
  C20_Case =>
    \A f \in C20_Fields :
      /\ (f \in DOMAIN cfg) = (f \in DOMAIN call.arg)
      /\ f \in DOMAIN call.arg => cfg[f] = call.arg[f]

\* the last call was a TOTP call on a configuration without a timestamp,
\* and this step is a TOTP call on the same object
C21_Case ==
  /\ call # None
  /\ call.op \in {"TOTP.generate", "TOTP.verify"}
  /\ "timestamp" \notin DOMAIN call.arg
  /\ call' # None
  /\ call' # call

\* C21: a TOTP.generate or TOTP.verify call on a configuration built
\* without a timestamp derives its counter from the wall clock at that
\* call, also when the object was passed to an earlier call: a later call
\* does not reuse the time the earlier call resolved.
C21_Original ==
  [][C21_Case => cfg'.counter = (now \div 1000) \div cfg'.period]_vars

\* the last call is a HOTP.verify with an explicit window of 0 that
\* scanned: the candidate has the configured length, no comparison threw
C22_Case ==
  /\ C18_Case
  /\ "window" \in DOMAIN call.arg
  /\ call.arg.window = 0

\* C22: default-filling replaces absent fields only: an explicit window of
\* 0 and an explicit counter of 0 are kept, so HOTP.verify with window 0
\* evaluates the configured counter alone and rejects the tokens generated
\* at counter - 1 and counter + 1 (those that are not also the token of
\* the configured counter).
C22_Original ==
  C22_Case =>
    LET counter == Prop(call.arg, "counter", 0)
    IN  /\ ver.config.window = 0
        /\ ver.config.counter = counter
        /\ ver.scanned = <<counter>>
        /\ (/\ VerifiesGenerated("HOTP.verify")
            /\ gen.counter \in {counter - 1, counter + 1}
            /\ TokenAt(counter) # gen.token) => ~ver.matched

\* the counter c as 8 bytes, most significant byte first
RECURSIVE C23_Bytes(_, _)
C23_Bytes(c, n) ==
  IF n = 0 THEN <<>> ELSE Append(C23_Bytes(c \div 256, n - 1), c % 256)

C23_BigEndian(c) == C23_Bytes(c, 8)

C23_Case ==
  /\ call # None
  /\ call.op = "HOTP.generate"

\* C23: HOTP.generate feeds the HMAC with the counter as 8 bytes in
\* big-endian order (counter 1 is 00 00 00 00 00 00 00 01): the token is
\* the truncation of the HMAC of these bytes, and the seed
\* 12345678901234567890 at counter 1 (epoch 59, period 30) gives 287082.
C23_Original ==
  C23_Case =>
    /\ gen.token
         = padStart(toString(Truncate(digest(gen.algorithm, gen.secret.buffer,
                                             C23_BigEndian(gen.counter)),
                                      gen.digits)),
                    gen.digits, "0")
    /\ (/\ gen.secret.buffer = Secrets[1]
        /\ gen.counter = 1
        /\ gen.digits = 6
        /\ gen.algorithm = "sha1")
         => gen.token = <<"2", "8", "7", "0", "8", "2">>

\* the lines of the text parsed that carry the key
C24_LinesOf(key) ==
  {k \in 1..Len(yubi.lines) : yubi.lines[k].key = key /\ key # None}

C24_Case ==
  /\ call # None
  /\ call.op = "validate"
  /\ yubi.parsed

\* C24: the parser splits the body at CRLF, drops the empty lines and
\* splits every other line at its first "=" only: the text after it is the
\* value, kept whole; keys and values are trimmed; keys the client does
\* not know are kept; of a key given twice the later value is kept.
C24_Parser ==
  C24_Case =>
    /\ \A i \in 1..Len(yubi.result) :
         C24_LinesOf(yubi.result[i][1]) # {}
    /\ \A k \in 1..Len(yubi.lines) :
         yubi.lines[k].key # None =>
           /\ Has(yubi.result, yubi.lines[k].key)
           /\ Cardinality({i \in 1..Len(yubi.result) :
                             yubi.result[i][1] = yubi.lines[k].key}) = 1
           /\ (\A j \in C24_LinesOf(yubi.lines[k].key) : j <= k)
                => Get(yubi.result, yubi.lines[k].key)
                     = Str(yubi.lines[k].value)

\* a text with an empty line, an h ending in "=", and the key status given
\* twice, the second time with white space, was parsed
C24_Witness ==
  /\ C24_Case
  /\ \E a, b, c, d \in 1..Len(yubi.lines) :
       /\ a < b
       /\ yubi.lines[a].key = KeyStatus
       /\ yubi.lines[b].key = KeyStatus
       /\ yubi.lines[a].value # yubi.lines[b].value
       /\ yubi.lines[c].text = <<>>
       /\ yubi.lines[d].key = KeyH
       /\ yubi.lines[d].value[Len(yubi.lines[d].value)] = "="
       /\ Get(yubi.result, KeyStatus) = Str(yubi.lines[b].value)
       /\ Get(yubi.result, KeyH) = Str(yubi.lines[d].value)

\* the digest the last generate call computed
C25_Digest ==
  digest(gen.algorithm, gen.secret.buffer,
         uint64_t(gen.counter, rev = "current"))

\* the truncation offset of a digest
C25_Offset(d) == d[Len(d)] % 16

C25_Case ==
  /\ call # None
  /\ call.op = "HOTP.generate"

\* C25: in HOTP.generate, for every supported digest algorithm (digests of
\* 20 to 64 bytes), the truncation offset is in 0..15, the four bytes at
\* offset..offset+3 lie inside the digest, and the value combined from
\* them with the top bit of the first masked is in 0 .. 2^31 - 1, so it is
\* not negative before the modulo.
C25_Truncation ==
  C25_Case =>
    LET d == C25_Digest
        o == C25_Offset(d)
        v == (d[o + 1] % 128) * 16777216 + d[o + 2] * 65536
             + d[o + 3] * 256 + d[o + 4]
    IN  /\ Len(d) \in 20..64
        /\ o \in 0..15
        /\ o + 4 <= Len(d)
        /\ v \in 0..2147483647
        /\ Head(gen.token) # "-"
        /\ Number(gen.token) = v % Pow10(gen.digits)

\* a token was generated from a digest whose first truncated byte has its
\* top bit set, at the largest offset
C25_Witness ==
  /\ C25_Case
  /\ C25_Digest[C25_Offset(C25_Digest) + 1] >= 128
  /\ \E a \in DigestAlgorithm \ {"sha1"} : gen.algorithm = a

\* the text of the OTP a caller submitted
C26_Submitted(i) ==
  IF "n" \in DOMAIN yubi.calls[i].otp
  THEN toString(yubi.calls[i].otp.n) ELSE yubi.calls[i].otp.s

\* the first 12 characters of a text
C26_Prefix(text) == SubSeq(text, 1, IF Len(text) < 12 THEN Len(text) ELSE 12)

\* the number of properties of obj named key
C26_Count(obj, key) == Cardinality({k \in 1..Len(obj) : obj[k][1] = key})

C26_Case(i) == yubi.calls[i].pc = "returned"

\* C26: in every result YubiKeyOTP.verify returns, isOk, deviceId,
\* signatureValid and valid are present once each and hold the values
\* computed locally (booleans from the status and the signature, the first
\* 12 characters of the OTP the caller submitted), whatever lines with
\* these keys or with another otp the response body holds.
C26_LocalFields ==
  \A i \in 1..MaxCalls :
    C26_Case(i) =>
      LET parsed == yubi.calls[i].parsed
          result == yubi.calls[i].result
          isOk == Has(parsed, KeyStatus) /\ Get(parsed, KeyStatus) = Str(StatusOK)
      IN  /\ \A key \in {KeyIsOk, KeyDeviceId, KeySignatureValid, KeyValid} :
               C26_Count(result, key) = 1
          /\ Get(result, KeyIsOk) = Bool(isOk)
          /\ Get(result, KeyDeviceId) = Str(C26_Prefix(C26_Submitted(i)))
          /\ Get(result, KeySignatureValid) = Bool(SignatureMatches(parsed))
          /\ Get(result, KeyValid) = Bool(isOk /\ SignatureMatches(parsed))

\* a call returned on a response whose lines give other values to the four
\* keys and echo the OTP of another device
C26_Witness ==
  \E i \in 1..MaxCalls :
    /\ C26_Case(i)
    /\ \A key \in {KeyIsOk, KeyDeviceId, KeySignatureValid, KeyValid} :
         /\ Has(yubi.calls[i].parsed, key)
         /\ Get(yubi.calls[i].parsed, key) # Get(yubi.calls[i].result, key)
    /\ Get(yubi.calls[i].parsed, KeyValid) = Str(<<"t", "r", "u", "e">>)
    /\ Get(yubi.calls[i].parsed, KeyOtp) # Str(C26_Submitted(i))
    /\ Get(yubi.calls[i].parsed, KeyDeviceId)
         = Str(C26_Prefix(Get(yubi.calls[i].parsed, KeyOtp).s))

C27_Case(i) ==
  /\ yubi.calls[i].pc = "returned"
  /\ Get(yubi.calls[i].result, KeyValid) = Bool(TRUE)

\* C27: whenever YubiKeyOTP.verify returns valid = true, the nonce and the
\* otp of the response are the nonce generated for this call and the otp
\* submitted in this call; a signed OK response to another request does
\* not yield valid = true.
C27_Original ==
  \A i \in 1..MaxCalls :
    C27_Case(i) =>
      /\ Has(yubi.calls[i].parsed, KeyNonce)
      /\ Get(yubi.calls[i].parsed, KeyNonce) = Str(yubi.calls[i].request.nonce)
      /\ Has(yubi.calls[i].parsed, KeyOtp)
      /\ Get(yubi.calls[i].parsed, KeyOtp) = Str(yubi.calls[i].request.otp)

=============================================================================
